---- MODULE Spec2Model ----
\* Verification model of the enso client library:
\*   - the paginated token stream  (src/metadata/tokens.rs)
\*   - the bundle builder and its JSON serialisation (src/bundle/core.rs)
EXTENDS Integers, Sequences, FiniteSets, TLC

\* ---------------------------------------------------------------------------
\* Bounds of the model
\* ---------------------------------------------------------------------------
\* largest lastPage a server reports
MaxLastPage == 2
\* largest number of entries on one page
MaxPerPage == 2
\* number of Ready results (items, errors, end-of-sequence) one stream is observed for
MaxPulls == 4
\* largest number of transactions added to one bundle
MaxTx == 3
\* largest number of transactions in a bundle that is submitted
MaxSendTx == 2
\* number of Ready results each of two concurrent streams is observed for
MaxTwoPulls == 2
\* largest number of actions in a catalog payload
MaxCatalog == 2
\* largest number of requests waiting for the business task when it starts
MaxRequests == 2
\* largest number of items the business task takes from one token stream
MaxBusinessPulls == 2
\* largest number of keys pressed in the UI
MaxKeys == 11

VARIABLES
    \* PaginatedTokensStream fields
    page,           \* u32: pages decoded so far
    total_pages,    \* Option<u32>: <<>> is None, <<n>> is Some(n)
    state,          \* StreamStates
    panicked,       \* the task polling the stream has panicked
    \* the server the stream talks to
    server,
    \* observation of the stream
    requests,       \* page numbers of the requests sent, in order
    out,            \* Ready results returned by poll_next, in order
    outstanding,    \* number of network operations created and not yet completed or dropped
    last,           \* what the most recent poll_next call did
    \* Bundle fields
    chain_id,
    transactions,
    \* observation of the bundle
    added,          \* the (protocol, action, args) triples handed to add_action, in call order
    \* submission of the bundle
    owned,          \* the caller still owns the bundle (send_bundle takes it by value)
    posts,          \* the HTTP requests send_bundle has issued, in order
    send_result,    \* Option<Result<()>>: what send_bundle returned
    \* a second PaginatedTokensStream, when there is one: its fields and its observation
    other,
    \* one call of a one-shot fetch: the operation, the body the server answers
    \* with, the position in the async fn, the requests sent and the result
    fetch,
    \* the application: the UI task, the business task and their two channels
    ui_state,       \* UIState
    data,           \* Data
    cache,          \* Cache
    ui_status,      \* "running", "exited" (run returned) or "panicked"
    ui_to_business, \* the requests in the channel, oldest first
    business_to_ui, \* the responses in the channel, oldest first
    business,       \* the locals of business() and its position
    pressed,        \* the number of keys pressed so far
    \* the two tasks seen from their channels: where run and business are, and
    \* how many messages wait in each channel
    flow

streamVars == <<page, total_pages, state, panicked, server, requests, out, outstanding, last>>
bundleVars == <<chain_id, transactions, added>>
sendVars == <<owned, posts, send_result>>
vars == <<page, total_pages, state, panicked, server, requests, out, outstanding, last,
          chain_id, transactions, added, owned, posts, send_result, other, fetch,
          ui_state, data, cache, ui_status, ui_to_business, business_to_ui, business,
          pressed, flow>>
uiVars == <<ui_state, data, cache, ui_status, pressed>>
appVars == <<ui_state, data, cache, ui_status, ui_to_business, business_to_ui, business,
             pressed, flow>>

\* ---------------------------------------------------------------------------
\* Helpers
\* ---------------------------------------------------------------------------
None == <<>>
Some(x) == <<x>>

RECURSIVE SumSeq(_)
SumSeq(s) == IF s = <<>> THEN 0 ELSE Head(s) + SumSeq(Tail(s))

\* ---------------------------------------------------------------------------
\* The server: a catalog of pages.  A reliable server never fails and always
\* reports the same lastPage; any other server may fail a request or a
\* decode and may report any lastPage.
\* ---------------------------------------------------------------------------
\* per_page entries on every page before the last, last_count on the last one
Servers == [reliable : BOOLEAN, last_page : 0..MaxLastPage,
            per_page : 1..MaxPerPage, last_count : 0..MaxPerPage]

\* number of entries on page p of the catalog
EntryCount(srv, p) == IF p < srv.last_page THEN srv.per_page ELSE srv.last_count

\* the address string of entry j of page p (addresses are Strings, distinct per entry)
DecimalDigit == <<"0", "1", "2", "3", "4", "5", "6", "7", "8", "9">>
TokenAddress(p, j) == "0x" \o DecimalDigit[p + 1] \o DecimalDigit[j + 1]

\* struct Token: the fields the stream can see
Token(p, j) ==
    [address |-> TokenAddress(p, j), primary_address |-> TokenAddress(p, 0), chain_id |-> 10]

\* struct Tokens, the decoded body of page p reporting lastPage lp
Tokens(srv, p, lp) ==
    [meta |-> [last_page |-> lp, current_page |-> p],
     data |-> [j \in 1..EntryCount(srv, p) |-> Token(p, j)]]

\* ---------------------------------------------------------------------------
\* StreamStates
\* ---------------------------------------------------------------------------
Checking == [tag |-> "Checking"]
\* the future returned by send() for a request of page p; done: it has already resolved
PollingServer(fut) == [tag |-> "PollingServer", fut |-> fut]
\* the future returned by response.json() for the response of page p
PollingParsing(fut) == [tag |-> "PollingParsing", fut |-> fut]

Future(p) == [page |-> p, done |-> FALSE]

\* results of poll_next
Pending == [kind |-> "Pending"]
ReadyNone == [kind |-> "End"]
ReadyErr(msg) == [kind |-> "Err", msg |-> msg]
ReadyOk(addrs, p) == [kind |-> "Ok", addrs |-> addrs, page |-> p]

\* outcomes of polling a request future that has already resolved; the Future
\* contract leaves this open: it may panic, never wake, or report the error again
FinishedOutcomes == {"Panic", "Pending", "Err"}

\* outcomes of polling the request future held in state st (a fresh one when
\* st is Checking): Pending, Ok(response), Err
ServerOutcomes(srv, st) ==
    IF st.tag = "PollingServer" /\ st.fut # None /\ st.fut[1].done THEN FinishedOutcomes
    ELSE IF srv.reliable THEN {"Pending", "Ok"} ELSE {"Pending", "Ok", "Err"}

\* outcomes of polling the decode future: Pending, Err, or Ok with the reported lastPage
ParsingOutcomes(srv) ==
    IF srv.reliable
    THEN {[k |-> "Pending", lp |-> 0], [k |-> "Ok", lp |-> srv.last_page]}
    ELSE {[k |-> "Pending", lp |-> 0], [k |-> "Err", lp |-> 0]}
         \cup {[k |-> "Ok", lp |-> n] : n \in 0..MaxLastPage}

\* last before the first call
NoPoll == [from |-> "Checking", visited |-> <<>>, issued |-> FALSE,
           srv |-> "none", parse |-> "none", page |-> 0, lp |-> 0, ret |-> Pending]

\* ---------------------------------------------------------------------------
\* PaginatedTokensStream::poll_next, block by block.  t is the stream during
\* one call: its fields, the observations, and ret = <<r>> once the call has
\* returned r.
\* ---------------------------------------------------------------------------
\* variant: the comparison is strict
is_some_and_page_gt(tp, pg) == tp # None /\ pg > tp[1]

\* variant: an unknown total counts as exhausted
is_none_or_page_ge(tp, pg) == tp = None \/ pg >= tp[1]

is_some_and_page_ge(tp, pg) == tp # None /\ pg >= tp[1]

\* variant: the request is sent whatever the phase
CheckingBlock_AnyPhase(t) ==
    IF is_some_and_page_ge(t.total_pages, t.page)
    THEN [t EXCEPT !.ret = Some(ReadyNone)]
    ELSE [t EXCEPT !.state = PollingServer(Some(Future(t.page + 1))),
                   !.requests = Append(t.requests, t.page + 1),
                   !.outstanding = t.outstanding + 1,
                   !.issued = TRUE,
                   !.visited = Append(t.visited, "PollingServer")]

\* variant: after the end of the sequence the stream starts over
CheckingBlock_Restart(t) ==
    IF t.state.tag = "Checking"
    THEN IF is_some_and_page_ge(t.total_pages, t.page)
         THEN [t EXCEPT !.page = 0, !.total_pages = None, !.ret = Some(ReadyNone)]
         ELSE [t EXCEPT !.state = PollingServer(Some(Future(t.page + 1))),
                        !.requests = Append(t.requests, t.page + 1),
                        !.outstanding = t.outstanding + 1,
                        !.issued = TRUE,
                        !.visited = Append(t.visited, "PollingServer")]
    ELSE t

\* variant: the request asks for page `page` instead of `page + 1`
CheckingBlock_SamePage(t) ==
    IF t.state.tag = "Checking"
    THEN IF is_some_and_page_ge(t.total_pages, t.page)
         THEN [t EXCEPT !.ret = Some(ReadyNone)]
         ELSE [t EXCEPT !.state = PollingServer(Some(Future(t.page))),
                        !.requests = Append(t.requests, t.page),
                        !.outstanding = t.outstanding + 1,
                        !.issued = TRUE,
                        !.visited = Append(t.visited, "PollingServer")]
    ELSE t

CheckingBlock(t) ==
    IF t.state.tag = "Checking"
    THEN IF is_some_and_page_ge(t.total_pages, t.page)
         THEN [t EXCEPT !.ret = Some(ReadyNone)]
         ELSE [t EXCEPT !.state = PollingServer(Some(Future(t.page + 1))),
                        !.requests = Append(t.requests, t.page + 1),
                        !.outstanding = t.outstanding + 1,
                        !.issued = TRUE,
                        !.visited = Append(t.visited, "PollingServer")]
    ELSE t

ServerBlock(t, so) ==
    IF t.ret # None \/ t.state.tag # "PollingServer" THEN t
    ELSE IF t.state.fut = None THEN [t EXCEPT !.ret = Some(ReadyNone)]
    ELSE LET future == t.state.fut[1] IN
         IF future.done
         THEN \* the future is polled again after it resolved
              CASE so = "Panic"   -> [t EXCEPT !.panicked = TRUE, !.srv = "Panic", !.ret = Some(Pending)]
                [] so = "Pending" -> [t EXCEPT !.srv = "Pending", !.ret = Some(Pending)]
                [] OTHER          -> [t EXCEPT !.srv = "ErrAgain",
                                               !.ret = Some(ReadyErr("Couldn't get tokens"))]
         ELSE CASE so = "Pending" -> [t EXCEPT !.srv = "Pending", !.ret = Some(Pending)]
                [] so = "Err"     -> [t EXCEPT !.state = PollingServer(Some([future EXCEPT !.done = TRUE])),
                                               !.outstanding = t.outstanding - 1,
                                               !.srv = "Err",
                                               !.page_polled = future.page,
                                               !.ret = Some(ReadyErr("Couldn't get tokens"))]
                \* the request is complete and response.json() starts reading the body:
                \* one operation ends, one begins
                [] OTHER          -> [t EXCEPT !.state = PollingParsing(Some(Future(future.page))),
                                               !.srv = "Ok",
                                               !.page_polled = future.page,
                                               !.visited = Append(t.visited, "PollingParsing")]

\* variant: a failed decode advances the cursor
ParsingBlock_SkipFailed(t, po) ==
    IF t.ret # None \/ t.state.tag # "PollingParsing" THEN t
    ELSE IF t.state.fut = None
         THEN [t EXCEPT !.state = Checking, !.ret = Some(ReadyNone)]
    ELSE LET future == t.state.fut[1]
             tokens == Tokens(t.server, future.page, po.lp) IN
         CASE po.k = "Pending" -> [t EXCEPT !.parse = "Pending", !.ret = Some(Pending)]
           [] po.k = "Ok"      -> [t EXCEPT !.page = t.page + 1,
                                            !.total_pages = Some(tokens.meta.last_page),
                                            !.state = Checking,
                                            !.outstanding = t.outstanding - 1,
                                            !.parse = "Ok",
                                            !.page_polled = future.page,
                                            !.visited = Append(t.visited, "Checking"),
                                            !.ret = Some(ReadyOk([j \in DOMAIN tokens.data |->
                                                                      tokens.data[j].address],
                                                                 future.page))]
           [] OTHER            -> [t EXCEPT !.page = t.page + 1,
                                            !.state = Checking,
                                            !.outstanding = t.outstanding - 1,
                                            !.parse = "Err",
                                            !.page_polled = future.page,
                                            !.visited = Append(t.visited, "Checking"),
                                            !.ret = Some(ReadyErr("Couldn't parse result"))]

\* variant: a successful decode leaves the cursor where it was
ParsingBlock_NoAdvance(t, po) ==
    IF t.ret # None \/ t.state.tag # "PollingParsing" THEN t
    ELSE IF t.state.fut = None
         THEN [t EXCEPT !.state = Checking, !.ret = Some(ReadyNone)]
    ELSE LET future == t.state.fut[1]
             tokens == Tokens(t.server, future.page, po.lp) IN
         CASE po.k = "Pending" -> [t EXCEPT !.parse = "Pending", !.ret = Some(Pending)]
           [] po.k = "Ok"      -> [t EXCEPT !.total_pages = Some(tokens.meta.last_page),
                                            !.state = Checking,
                                            !.outstanding = t.outstanding - 1,
                                            !.parse = "Ok",
                                            !.page_polled = future.page,
                                            !.visited = Append(t.visited, "Checking"),
                                            !.ret = Some(ReadyOk([j \in DOMAIN tokens.data |->
                                                                      tokens.data[j].address],
                                                                 future.page))]
           [] OTHER            -> [t EXCEPT !.state = Checking,
                                            !.outstanding = t.outstanding - 1,
                                            !.parse = "Err",
                                            !.page_polled = future.page,
                                            !.visited = Append(t.visited, "Checking"),
                                            !.ret = Some(ReadyErr("Couldn't parse result"))]

\* variant: total_pages is taken from meta.current_page
ParsingBlock_CurrentPage(t, po) ==
    IF t.ret # None \/ t.state.tag # "PollingParsing" THEN t
    ELSE IF t.state.fut = None
         THEN [t EXCEPT !.state = Checking, !.ret = Some(ReadyNone)]
    ELSE LET future == t.state.fut[1]
             tokens == Tokens(t.server, future.page, po.lp) IN
         CASE po.k = "Pending" -> [t EXCEPT !.parse = "Pending", !.ret = Some(Pending)]
           [] po.k = "Ok"      -> [t EXCEPT !.page = t.page + 1,
                                            !.total_pages = Some(tokens.meta.current_page),
                                            !.state = Checking,
                                            !.outstanding = t.outstanding - 1,
                                            !.parse = "Ok",
                                            !.page_polled = future.page,
                                            !.visited = Append(t.visited, "Checking"),
                                            !.ret = Some(ReadyOk([j \in DOMAIN tokens.data |->
                                                                      tokens.data[j].address],
                                                                 future.page))]
           [] OTHER            -> [t EXCEPT !.state = Checking,
                                            !.outstanding = t.outstanding - 1,
                                            !.parse = "Err",
                                            !.page_polled = future.page,
                                            !.visited = Append(t.visited, "Checking"),
                                            !.ret = Some(ReadyErr("Couldn't parse result"))]

\* variant: a page that reports lastPage = 0 ends the sequence instead of being yielded
ParsingBlock_EmptyTotal(t, po) ==
    IF t.ret # None \/ t.state.tag # "PollingParsing" THEN t
    ELSE IF t.state.fut = None
         THEN [t EXCEPT !.state = Checking, !.ret = Some(ReadyNone)]
    ELSE LET future == t.state.fut[1]
             tokens == Tokens(t.server, future.page, po.lp) IN
         CASE po.k = "Pending" -> [t EXCEPT !.parse = "Pending", !.ret = Some(Pending)]
           [] po.k = "Ok"      -> [t EXCEPT !.page = t.page + 1,
                                            !.total_pages = Some(tokens.meta.last_page),
                                            !.state = Checking,
                                            !.outstanding = t.outstanding - 1,
                                            !.parse = "Ok",
                                            !.page_polled = future.page,
                                            !.visited = Append(t.visited, "Checking"),
                                            !.ret = IF tokens.meta.last_page = 0
                                                    THEN Some(ReadyNone)
                                                    ELSE Some(ReadyOk([j \in DOMAIN tokens.data |->
                                                                          tokens.data[j].address],
                                                                      future.page))]
           [] OTHER            -> [t EXCEPT !.state = Checking,
                                            !.outstanding = t.outstanding - 1,
                                            !.parse = "Err",
                                            !.page_polled = future.page,
                                            !.visited = Append(t.visited, "Checking"),
                                            !.ret = Some(ReadyErr("Couldn't parse result"))]

ParsingBlock(t, po) ==
    IF t.ret # None \/ t.state.tag # "PollingParsing" THEN t
    ELSE IF t.state.fut = None
         THEN [t EXCEPT !.state = Checking, !.ret = Some(ReadyNone)]
    ELSE LET future == t.state.fut[1]
             tokens == Tokens(t.server, future.page, po.lp) IN
         CASE po.k = "Pending" -> [t EXCEPT !.parse = "Pending", !.ret = Some(Pending)]
           [] po.k = "Ok"      -> [t EXCEPT !.page = t.page + 1,
                                            !.total_pages = Some(tokens.meta.last_page),
                                            !.state = Checking,
                                            !.outstanding = t.outstanding - 1,
                                            !.parse = "Ok",
                                            !.page_polled = future.page,
                                            !.visited = Append(t.visited, "Checking"),
                                            !.ret = Some(ReadyOk([j \in DOMAIN tokens.data |->
                                                                      tokens.data[j].address],
                                                                 future.page))]
           [] OTHER            -> [t EXCEPT !.state = Checking,
                                            !.outstanding = t.outstanding - 1,
                                            !.parse = "Err",
                                            !.page_polled = future.page,
                                            !.visited = Append(t.visited, "Checking"),
                                            !.ret = Some(ReadyErr("Couldn't parse result"))]

FinalBlock(t) ==
    IF t.ret # None THEN t
    ELSE [t EXCEPT !.state = Checking, !.ret = Some(ReadyNone)]

\* the three blocks in source order, then the fall-through at the end
poll_next_blocks(t, so, po) ==
    FinalBlock(ParsingBlock(ServerBlock(CheckingBlock(t), so), po))

This ==
    [page |-> page, total_pages |-> total_pages, state |-> state, panicked |-> panicked,
     server |-> server, requests |-> requests, outstanding |-> outstanding,
     issued |-> FALSE, visited |-> <<>>, srv |-> "none", parse |-> "none",
     page_polled |-> 0, ret |-> None]

poll_next(so, po) ==
    /\ ~panicked
    /\ Len(out) < MaxPulls
    /\ LET t == poll_next_blocks(This, so, po)
           r == t.ret[1] IN
       /\ page' = t.page
       /\ total_pages' = t.total_pages
       /\ state' = t.state
       /\ panicked' = t.panicked
       /\ requests' = t.requests
       /\ outstanding' = t.outstanding
       /\ out' = IF r.kind = "Pending" THEN out ELSE Append(out, r)
       /\ last' = [from |-> state.tag, visited |-> t.visited, issued |-> t.issued,
                   srv |-> t.srv, parse |-> t.parse, page |-> t.page_polled,
                   lp |-> IF t.parse = "Ok" THEN po.lp ELSE 0, ret |-> r]
    /\ UNCHANGED server

\* one call of poll_next by the consumer of the stream
Poll ==
    \E so \in ServerOutcomes(server, state), po \in ParsingOutcomes(server) :
        poll_next(so, po)

\* variant: the cursor starts at the first page
tokens_stream_from1 ==
    /\ page = 1
    /\ total_pages = None
    /\ state = Checking
    /\ panicked = FALSE
    /\ server \in Servers
    /\ requests = <<>>
    /\ out = <<>>
    /\ outstanding = 0
    /\ last = NoPoll

\* Enso::tokens_stream
tokens_stream ==
    /\ page = 0
    /\ total_pages = None
    /\ state = Checking
    /\ panicked = FALSE
    /\ server \in Servers
    /\ requests = <<>>
    /\ out = <<>>
    /\ outstanding = 0
    /\ last = NoPoll

\* ---------------------------------------------------------------------------
\* serde_json values
\* ---------------------------------------------------------------------------
JString(x) == [json |-> "String", s |-> x]
JNumber(n) == [json |-> "Number", n |-> n]
JArray(items) == [json |-> "Array", items |-> items]
JObject(m) == [json |-> "Object", map |-> m]

\* serde_json::Map: new and insert (an existing key is overwritten)
MapNew == <<>>
MapInsert(m, k, v) == [x \in (DOMAIN m) \cup {k} |-> IF x = k THEN v ELSE m[x]]

\* serde_json::to_string: the JSON text denoting v; from_str reads it back
serde_json_to_string(v) == [text |-> v]
serde_json_from_str(txt) == txt.text

\* ---------------------------------------------------------------------------
\* Protocols, actions, parameter values
\* ---------------------------------------------------------------------------
ENSO_PROTOCOL == [slug |-> "enso", url |-> "https://api.enso.finance"]
OTHER_PROTOCOL == [slug |-> "aave-v3", url |-> "https://aave.com"]
Protocols == {ENSO_PROTOCOL, OTHER_PROTOCOL}

\* variant: the ABI signature comes after the arguments
ACTION_CALL_args_first ==
    [action |-> "call",
     inputs |-> <<<<"address", "">>, <<"method", "">>, <<"args", "">>, <<"abi", "">>>>]

ACTION_CALL ==
    [action |-> "call",
     inputs |-> <<<<"address", "">>, <<"method", "">>, <<"abi", "">>, <<"args", "">>>>]

\* the schema of the test module
ACTION_ROUTE ==
    [action |-> "route",
     inputs |-> <<<<"amountIn", "Raw amount to sell">>, <<"slippage", "Amount of slippage">>,
                  <<"tokenIn", "Address of token to sell">>, <<"tokenOut", "Address of token to buy">>>>]

\* a schema without parameters
ACTION_EMPTY == [action |-> "harvest", inputs |-> <<>>]

Actions == {ACTION_CALL, ACTION_ROUTE, ACTION_EMPTY}

\* enum ParamValue
Value(v) == [tag |-> "Value", v |-> v]
LastTransaction == [tag |-> "LastTransaction"]
Transaction(n) == [tag |-> "Transaction", t |-> n]
ValueArray(values) == [tag |-> "ValueArray", values |-> values]

\* the argument lists callers pass
ArgLists ==
    { <<LastTransaction, Transaction(1)>>,
      <<Value("100000000000"), Value("300"), Value("0xeeee"), Value("0xae7a")>>,
      <<Transaction(MaxTx), ValueArray(<<ValueArray(<<LastTransaction>>), Value("0x9362")>>),
        LastTransaction, Value("0"), LastTransaction>> }

\* the head and ABI argument lists callers pass to add_call
HeadLists ==
    { <<Value("0xCc9E"), Value("transfer"), Value("abi")>>,
      <<LastTransaction>>,
      <<Value("0xCc9E"), Value("transfer"), Value("abi"), Value("0x9362")>> }
AbiLists == { <<Value("0x9362"), Transaction(1)>>, <<LastTransaction>> }

\* ---------------------------------------------------------------------------
\* Bundle::to_json
\* ---------------------------------------------------------------------------
output_of_call_at(tx) == JObject(MapInsert(MapNew, "useOutputOfCallAt", JNumber(tx)))

\* variant: LastTransaction refers to the transaction itself
RECURSIVE param_value_to_json_self(_, _)
param_value_to_json_self(value, current_tx) ==
    CASE value.tag = "Value" -> JString(value.v)
      [] value.tag = "LastTransaction" ->
            IF current_tx > 0 THEN output_of_call_at(current_tx) ELSE JString("0")
      [] value.tag = "Transaction" -> output_of_call_at(value.t)
      [] OTHER ->
            JArray([k \in DOMAIN value.values |->
                        param_value_to_json_self(value.values[k], current_tx)])

\* variant: only a reference to an earlier transaction is emitted
RECURSIVE param_value_to_json_backward(_, _)
param_value_to_json_backward(value, current_tx) ==
    CASE value.tag = "Value" -> JString(value.v)
      [] value.tag = "LastTransaction" ->
            IF current_tx > 0 THEN output_of_call_at(current_tx - 1) ELSE JString("0")
      [] value.tag = "Transaction" ->
            IF value.t < current_tx THEN output_of_call_at(value.t) ELSE JString("0")
      [] OTHER ->
            JArray([k \in DOMAIN value.values |->
                        param_value_to_json_backward(value.values[k], current_tx)])

\* variant: the items of a list are resolved as if they were in the first transaction
RECURSIVE param_value_to_json_nested0(_, _)
param_value_to_json_nested0(value, current_tx) ==
    CASE value.tag = "Value" -> JString(value.v)
      [] value.tag = "LastTransaction" ->
            IF current_tx > 0 THEN output_of_call_at(current_tx - 1) ELSE JString("0")
      [] value.tag = "Transaction" -> output_of_call_at(value.t)
      [] OTHER ->
            JArray([k \in DOMAIN value.values |->
                        param_value_to_json_nested0(value.values[k], 0)])

RECURSIVE param_value_to_json(_, _)
param_value_to_json(value, current_tx) ==
    CASE value.tag = "Value" -> JString(value.v)
      [] value.tag = "LastTransaction" ->
            IF current_tx > 0 THEN output_of_call_at(current_tx - 1) ELSE JString("0")
      [] value.tag = "Transaction" -> output_of_call_at(value.t)
      [] OTHER ->
            JArray([k \in DOMAIN value.values |->
                        param_value_to_json(value.values[k], current_tx)])

Min(a, b) == IF a <= b THEN a ELSE b

\* variant: the values are bound to the names in reverse order
RECURSIVE zip_insert_rev(_, _, _, _, _)
zip_insert_rev(m, inputs, args, current_tx, n) ==
    IF n = 0 THEN m
    ELSE MapInsert(zip_insert_rev(m, inputs, args, current_tx, n - 1),
                   inputs[n][1],
                   param_value_to_json(args[Min(Len(inputs), Len(args)) + 1 - n], current_tx))

\* the loop over inputs.iter().zip(args.iter()): the first n pairs inserted into m
RECURSIVE zip_insert(_, _, _, _, _)
zip_insert(m, inputs, args, current_tx, n) ==
    IF n = 0 THEN m
    ELSE MapInsert(zip_insert(m, inputs, args, current_tx, n - 1),
                   inputs[n][1], param_value_to_json(args[n], current_tx))

\* variant: a parameter without a value is emitted with the default "0"
tx_to_json_defaults(transaction, current_tx) ==
    LET tx1 == MapInsert(MapNew, "protocol", JString(transaction.protocol.slug))
        tx2 == MapInsert(tx1, "action", JString(transaction.action.action))
        args == zip_insert(MapNew, transaction.action.inputs, transaction.args, current_tx,
                           Min(Len(transaction.action.inputs), Len(transaction.args)))
        names == {transaction.action.inputs[j][1] : j \in 1..Len(transaction.action.inputs)}
        full == [x \in (DOMAIN args) \cup names |-> IF x \in DOMAIN args THEN args[x] ELSE JString("0")]
    IN MapInsert(tx2, "args", JObject(full))

\* variant: without parameter names the values are emitted as an array
tx_to_json_positional(transaction, current_tx) ==
    LET tx1 == MapInsert(MapNew, "protocol", JString(transaction.protocol.slug))
        tx2 == MapInsert(tx1, "action", JString(transaction.action.action))
        args == zip_insert(MapNew, transaction.action.inputs, transaction.args, current_tx,
                           Min(Len(transaction.action.inputs), Len(transaction.args)))
    IN IF transaction.action.inputs = <<>>
       THEN MapInsert(tx2, "args", JArray([j \in 1..Len(transaction.args) |->
                                              param_value_to_json(transaction.args[j], current_tx)]))
       ELSE MapInsert(tx2, "args", JObject(args))

\* variant: the protocol is identified by its url
tx_to_json_url(transaction, current_tx) ==
    LET tx1 == MapInsert(MapNew, "protocol", JString(transaction.protocol.url))
        tx2 == MapInsert(tx1, "action", JString(transaction.action.action))
        args == zip_insert(MapNew, transaction.action.inputs, transaction.args, current_tx,
                           Min(Len(transaction.action.inputs), Len(transaction.args)))
    IN MapInsert(tx2, "args", JObject(args))

\* the map built for one transaction by the body of the loop
tx_to_json(transaction, current_tx) ==
    LET tx1 == MapInsert(MapNew, "protocol", JString(transaction.protocol.slug))
        tx2 == MapInsert(tx1, "action", JString(transaction.action.action))
        args == zip_insert(MapNew, transaction.action.inputs, transaction.args, current_tx,
                           Min(Len(transaction.action.inputs), Len(transaction.args)))
    IN MapInsert(tx2, "args", JObject(args))

\* the vector `bundle` built by to_json; current_tx counts from 0
bundle_to_vec(txs) == [k \in 1..Len(txs) |-> tx_to_json(txs[k], k - 1)]

to_json(txs) == serde_json_to_string(JArray(bundle_to_vec(txs)))

\* the records a reader of the serialised bundle sees
Records == serde_json_from_str(to_json(transactions)).items

\* ---------------------------------------------------------------------------
\* Bundle operations
\* ---------------------------------------------------------------------------
NewTransaction(protocol, action, args) ==
    [protocol |-> protocol, action |-> action, args |-> args]

\* variant: the transaction is put in front
add_action_front(protocol, action, args) ==
    /\ Len(transactions) < MaxTx
    /\ transactions' = <<NewTransaction(protocol, action, args)>> \o transactions
    /\ added' = Append(added, NewTransaction(protocol, action, args))
    /\ UNCHANGED chain_id

\* variant: a transaction is accepted only with one value per parameter
add_action_checked(protocol, action, args) ==
    /\ Len(transactions) < MaxTx
    /\ Len(args) = Len(action.inputs)
    /\ transactions' = Append(transactions, NewTransaction(protocol, action, args))
    /\ added' = Append(added, NewTransaction(protocol, action, args))
    /\ UNCHANGED chain_id

add_action(protocol, action, args) ==
    /\ Len(transactions) < MaxTx
    /\ transactions' = Append(transactions, NewTransaction(protocol, action, args))
    /\ added' = Append(added, NewTransaction(protocol, action, args))
    /\ UNCHANGED chain_id

add_enso_action(action, args) == add_action(ENSO_PROTOCOL, action, args)

\* variant: the ABI arguments are appended one by one instead of as one list
add_call_flat(args, abi_args) ==
    add_action(ENSO_PROTOCOL, ACTION_CALL, args \o abi_args)

add_call(args, abi_args) ==
    add_action(ENSO_PROTOCOL, ACTION_CALL, Append(args, ValueArray(abi_args)))

AddAction ==
    \E protocol \in Protocols, action \in Actions, args \in ArgLists :
        add_action(protocol, action, args)

AddEnsoAction == \E action \in Actions, args \in ArgLists : add_enso_action(action, args)

AddCall == \E args \in HeadLists, abi_args \in AbiLists : add_call(args, abi_args)

\* Bundle::new
Bundle_new(id) ==
    /\ chain_id = id
    /\ transactions = <<>>
    /\ added = <<>>

BundleNew == Bundle_new(1)

\* ---------------------------------------------------------------------------
\* Enso::send_bundle
\* ---------------------------------------------------------------------------
\* u32::to_string: the decimal text of n
u32_to_string(n) == [decimal |-> n]

\* Enso::get_api_url
get_api_url == "https://api.enso.finance/api/v1"

\* RequestBuilder::json(&T) for T = String: the body is the JSON text of the
\* string, that is of a JSON string value
reqwest_json(string) == serde_json_to_string(JString(string))

\* the chain ids a bundle is created for and the sender addresses callers pass
ChainIds == {1, 10}
FromAddresses == {"0x", "0xd8da"}

\* what send().await gives: a response of any status, or a transport error
SendOutcomes == {"Response200", "Response400", "Err"}

\* variant: a failed request is sent once more
send_bundle_retry(from_address, outcome) ==
    LET request == [method |-> "POST",
                    url |-> <<get_api_url, "/shortcuts/bundle">>,
                    query |-> <<<<"chainId", u32_to_string(chain_id)>>,
                                <<"fromAddress", from_address>>>>,
                    body |-> reqwest_json(to_json(transactions))] IN
    /\ owned
    /\ owned' = FALSE
    /\ posts' = IF outcome = "Err" THEN posts \o <<request, request>> ELSE Append(posts, request)
    /\ send_result' = Some(IF outcome = "Err" THEN "Err" ELSE "Ok")
    /\ UNCHANGED bundleVars

send_bundle(from_address, outcome) ==
    /\ owned
    /\ owned' = FALSE
    /\ posts' = Append(posts,
                       [method |-> "POST",
                        url |-> <<get_api_url, "/shortcuts/bundle">>,
                        query |-> <<<<"chainId", u32_to_string(chain_id)>>,
                                    <<"fromAddress", from_address>>>>,
                        body |-> reqwest_json(to_json(transactions))])
    /\ send_result' = Some(IF outcome = "Err" THEN "Err" ELSE "Ok")
    /\ UNCHANGED bundleVars

SendBundle ==
    \E from_address \in FromAddresses, outcome \in SendOutcomes :
        send_bundle(from_address, outcome)

\* nothing submitted yet
NoSubmission ==
    /\ owned = TRUE
    /\ posts = <<>>
    /\ send_result = None

\* ---------------------------------------------------------------------------
\* A second stream instance, created by another call of tokens_stream on the
\* same client and polled or dropped by its own consumer
\* ---------------------------------------------------------------------------
NoInstance == <<>>

\* Enso::tokens_stream, second call
tokens_stream_other ==
    other = [page |-> 0, total_pages |-> None, state |-> Checking, panicked |-> FALSE,
             requests |-> <<>>, out |-> <<>>, outstanding |-> 0, dropped |-> FALSE]

OtherThis ==
    [page |-> other.page, total_pages |-> other.total_pages, state |-> other.state,
     panicked |-> other.panicked, server |-> server, requests |-> other.requests,
     outstanding |-> other.outstanding,
     issued |-> FALSE, visited |-> <<>>, srv |-> "none", parse |-> "none",
     page_polled |-> 0, ret |-> None]

\* variant: the two instances share one cursor
poll_next_other_shared(so, po) ==
    /\ other # NoInstance
    /\ ~other.dropped
    /\ ~other.panicked
    /\ Len(other.out) < MaxTwoPulls
    /\ LET t == poll_next_blocks([OtherThis EXCEPT !.page = page], so, po)
           r == t.ret[1] IN
       /\ other' = [other EXCEPT !.page = t.page,
                                 !.total_pages = t.total_pages,
                                 !.state = t.state,
                                 !.panicked = t.panicked,
                                 !.requests = t.requests,
                                 !.outstanding = t.outstanding,
                                 !.out = IF r.kind = "Pending" THEN other.out
                                         ELSE Append(other.out, r)]
       /\ page' = t.page
    /\ UNCHANGED <<total_pages, state, panicked, server, requests, out, outstanding, last>>

\* poll_next on the second instance
poll_next_other(so, po) ==
    /\ other # NoInstance
    /\ ~other.dropped
    /\ ~other.panicked
    /\ Len(other.out) < MaxTwoPulls
    /\ LET t == poll_next_blocks(OtherThis, so, po)
           r == t.ret[1] IN
       other' = [other EXCEPT !.page = t.page,
                              !.total_pages = t.total_pages,
                              !.state = t.state,
                              !.panicked = t.panicked,
                              !.requests = t.requests,
                              !.outstanding = t.outstanding,
                              !.out = IF r.kind = "Pending" THEN other.out
                                      ELSE Append(other.out, r)]
    /\ UNCHANGED streamVars

PollOther ==
    \E so \in ServerOutcomes(server, other.state), po \in ParsingOutcomes(server) :
        poll_next_other(so, po)

\* the consumer of the second instance drops it; a boxed future it holds is
\* dropped with it
DropOther ==
    /\ other # NoInstance
    /\ ~other.dropped
    /\ other' = [other EXCEPT !.dropped = TRUE, !.outstanding = 0]
    /\ UNCHANGED streamVars

PollFirst == Len(out) < MaxTwoPulls /\ Poll /\ UNCHANGED other

\* ---------------------------------------------------------------------------
\* Response bodies as they are on the wire: the fields of an object are in
\* the order of the text
\* ---------------------------------------------------------------------------
WStr(x) == [w |-> "Str", s |-> x]
WNum(n) == [w |-> "Num", n |-> n]
WArr(items) == [w |-> "Arr", items |-> items]
WObj(fields) == [w |-> "Obj", fields |-> fields]
\* a body that is not JSON
WGarbage == [w |-> "Garbage"]

Ok(v) == [ok |-> TRUE, v |-> v]
Err(msg) == [ok |-> FALSE, msg |-> msg]

SeqsUpTo(S, n) == UNION {[1..k -> S] : k \in 0..n}

\* the field names of the payloads, in the order of str::cmp
Lex == <<"action", "address", "amountIn", "id", "inputs", "name", "slippage", "slug",
         "tokenIn", "tokenOut", "url">>
LexRank(name) == CHOOSE i \in 1..Len(Lex) : Lex[i] = name

\* serde_json::Map built from the fields of an object and iterated: a name
\* that occurs again overwrites the value and keeps its place; the entries
\* come in the order of the names (BTreeMap, the default) or in the order of
\* first insertion (IndexMap, crate feature preserve_order)
FirstIdx(fields, name) == CHOOSE i \in 1..Len(fields) :
    fields[i][1] = name /\ \A j \in 1..(i - 1) : fields[j][1] # name
LastIdx(fields, name) == CHOOSE i \in 1..Len(fields) :
    fields[i][1] = name /\ \A j \in (i + 1)..Len(fields) : fields[j][1] # name

Map_into_iter(fields, preserve_order) ==
    LET K == {fields[i][1] : i \in 1..Len(fields)}
        rank(k) == IF preserve_order THEN FirstIdx(fields, k) ELSE LexRank(k)
        key(i) == CHOOSE k \in K : Cardinality({k2 \in K : rank(k2) < rank(k)}) = i - 1
    IN [i \in 1..Cardinality(K) |-> <<key(i), fields[LastIdx(fields, key(i))][2]>>]

\* object_as_vector::deserialize
object_as_vector(w, preserve_order) ==
    IF w.w # "Obj" THEN Err("")
    ELSE LET fields == Map_into_iter(w.fields, preserve_order) IN
         Ok([i \in 1..Len(fields) |->
                <<fields[i][1], IF fields[i][2].w = "Str" THEN fields[i][2].s ELSE "">>])

\* a derived struct deserializer: field `name` of an object, which must occur once
HasOne(w, name) == Cardinality({i \in 1..Len(w.fields) : w.fields[i][1] = name}) = 1
Get(w, name) == w.fields[CHOOSE i \in 1..Len(w.fields) : w.fields[i][1] = name][2]

\* Deserialize for Action, Protocol, Network
DecodeAction(w, preserve_order) ==
    IF w.w = "Obj" /\ HasOne(w, "action") /\ HasOne(w, "inputs")
       /\ Get(w, "action").w = "Str" /\ object_as_vector(Get(w, "inputs"), preserve_order).ok
    THEN Ok([action |-> Get(w, "action").s,
             inputs |-> object_as_vector(Get(w, "inputs"), preserve_order).v])
    ELSE Err("")

DecodeProtocol(w, preserve_order) ==
    IF w.w = "Obj" /\ HasOne(w, "slug") /\ HasOne(w, "url")
       /\ Get(w, "slug").w = "Str" /\ Get(w, "url").w = "Str"
    THEN Ok([slug |-> Get(w, "slug").s, url |-> Get(w, "url").s])
    ELSE Err("")

DecodeNetwork(w, preserve_order) ==
    IF w.w = "Obj" /\ HasOne(w, "id") /\ HasOne(w, "name")
       /\ Get(w, "id").w = "Num" /\ Get(w, "name").w = "Str"
    THEN Ok([id |-> Get(w, "id").n, name |-> Get(w, "name").s])
    ELSE Err("")

\* Deserialize for Vec<T>
DecodeVec(w, preserve_order, D(_, _)) ==
    IF w.w = "Arr" /\ \A i \in 1..Len(w.items) : D(w.items[i], preserve_order).ok
    THEN Ok([i \in 1..Len(w.items) |-> D(w.items[i], preserve_order).v])
    ELSE Err("")

\* the single page of get_tokens: the body carries page p of a catalog; the
\* result is the meta and the addresses
TokensBody(srv, p) == [w |-> "Tokens", tokens |-> Tokens(srv, p, srv.last_page)]

DecodeTokensPage(w, preserve_order) ==
    IF w.w = "Tokens"
    THEN Ok(<<w.tokens.meta, [j \in DOMAIN w.tokens.data |-> w.tokens.data[j].address]>>)
    ELSE Err("")

\* response.json::<T>() of the four fetches
Decode(op, w, preserve_order) ==
    CASE op = "get_actions"   -> DecodeVec(w, preserve_order, DecodeAction)
      [] op = "get_protocols" -> DecodeVec(w, preserve_order, DecodeProtocol)
      [] op = "get_networks"  -> DecodeVec(w, preserve_order, DecodeNetwork)
      [] OTHER                -> DecodeTokensPage(w, preserve_order)

\* the bodies a server answers with
ActionPayloads ==
    { WObj(<<<<"action", WStr("route")>>,
             <<"inputs", WObj(<<<<"tokenIn", WStr("Address of token to sell")>>,
                                <<"tokenOut", WStr("Address of token to buy")>>,
                                <<"amountIn", WStr("Raw amount to sell")>>,
                                <<"slippage", WNum(300)>>>>)>>>>),
      WObj(<<<<"action", WStr("harvest")>>, <<"inputs", WObj(<<>>)>>>>),
      WObj(<<<<"inputs", WObj(<<<<"amountIn", WStr("first")>>,
                                <<"tokenIn", WStr("token")>>,
                                <<"amountIn", WStr("again")>>>>)>>,
             <<"action", WStr("deposit")>>>>),
      WObj(<<<<"action", WStr("borrow")>>, <<"inputs", WArr(<<WStr("tokenIn")>>)>>>>) }

ActionBodies == {WGarbage} \cup {WArr(items) : items \in SeqsUpTo(ActionPayloads, MaxCatalog)}

ProtocolBodies ==
    { WGarbage, WArr(<<>>), WObj(<<>>),
      WArr(<<WObj(<<<<"slug", WStr("aave-v3")>>, <<"url", WStr("https://aave.com")>>>>)>>),
      WArr(<<WObj(<<<<"slug", WStr("aave-v3")>>, <<"url", WStr("https://aave.com")>>>>),
             WObj(<<<<"slug", WStr("enso")>>>>)>>) }

NetworkBodies ==
    { WGarbage, WArr(<<>>),
      WArr(<<WObj(<<<<"id", WNum(1)>>, <<"name", WStr("Ethereum")>>>>),
             WObj(<<<<"name", WStr("Optimism")>>, <<"id", WNum(10)>>>>)>>),
      WArr(<<WObj(<<<<"id", WStr("1")>>, <<"name", WStr("Ethereum")>>>>)>>) }

TokenBodies ==
    { WGarbage, WArr(<<>>),
      TokensBody([reliable |-> TRUE, last_page |-> 2, per_page |-> 2, last_count |-> 1], 1) }

Bodies(op) ==
    CASE op = "get_actions"   -> ActionBodies
      [] op = "get_protocols" -> ProtocolBodies
      [] op = "get_networks"  -> NetworkBodies
      [] OTHER                -> TokenBodies

FetchOps == {"get_actions", "get_protocols", "get_networks", "get_tokens"}

\* ---------------------------------------------------------------------------
\* The one-shot fetches get_actions, get_protocols, get_networks, get_tokens:
\* the same async fn up to the decoded type
\* ---------------------------------------------------------------------------
NoFetch == [op |-> "none"]

\* the call: the request is built and send() is awaited
fetch_call ==
    /\ fetch.pc = "called"
    /\ fetch' = [fetch EXCEPT !.pc = "send", !.requests = fetch.requests + 1]

\* variant: a request that failed is sent again
fetch_send_retry(outcome) ==
    /\ fetch.pc = "send"
    /\ fetch' = IF outcome = "Err"
                THEN [fetch EXCEPT !.requests = fetch.requests + 1, !.transport = "Err"]
                ELSE [fetch EXCEPT !.pc = "json", !.transport = "Ok"]

\* send().await resolves; map_err(..)? returns on a transport error, otherwise
\* json::<T>() is awaited
fetch_send(outcome) ==
    /\ fetch.pc = "send"
    /\ fetch' = IF outcome = "Err"
                THEN [fetch EXCEPT !.pc = "done", !.transport = "Err",
                                   !.result = Some(Err("Couldn't get tokens"))]
                ELSE [fetch EXCEPT !.pc = "json", !.transport = "Ok"]

\* json::<T>().await resolves: the body was read and decoded, or reading failed
fetch_json(outcome) ==
    /\ fetch.pc = "json"
    /\ LET decoded == IF outcome = "Err" THEN Err("")
                      ELSE Decode(fetch.op, fetch.body, fetch.preserve_order) IN
       fetch' = [fetch EXCEPT !.pc = "done", !.read = outcome,
                              !.result = Some(IF decoded.ok THEN decoded
                                              ELSE Err("Couldn't parse result"))]

FetchCall == fetch_call
FetchSend == \E outcome \in {"Ok", "Err"} : fetch_send(outcome)
FetchJson == \E outcome \in {"Ok", "Err"} : fetch_json(outcome)

\* a fetch is called; the build has serde_json with or without preserve_order
InitFetch ==
    \E op \in FetchOps, preserve_order \in BOOLEAN :
        \E body \in Bodies(op) :
            fetch = [op |-> op, body |-> body, preserve_order |-> preserve_order,
                     pc |-> "called", requests |-> 0, transport |-> "none", read |-> "none",
                     result |-> None]

\* ---------------------------------------------------------------------------
\* The application (main.rs): requests, responses, the two channels
\* ---------------------------------------------------------------------------
\* mpsc::channel(32)
ChannelCapacity == 32

\* enum UIRequest
GetNetworks == [req |-> "GetNetworks"]
SetNetwork(id) == [req |-> "SetNetwork", id |-> id]
GetTokens == [req |-> "GetTokens"]
GetProtocols == [req |-> "GetProtocols"]
GetActions == [req |-> "GetActions"]
SendBundleRequest(d) == [req |-> "SendBundle", data |-> d]
Quit == [req |-> "Quit"]

\* enum BusinessResponse
TokensResponse(t) == [resp |-> "Tokens", v |-> t]
ProtocolsResponse(p) == [resp |-> "Protocols", v |-> p]
ActionsResponse(a) == [resp |-> "Actions", v |-> a]
NetworksResponse(n) == [resp |-> "Networks", v |-> n]

\* what the server's catalogs hold when a fetch succeeds
CatalogNetworks == <<[id |-> 1, name |-> "Ethereum"], [id |-> 10, name |-> "Optimism"]>>
CatalogProtocols == <<OTHER_PROTOCOL>>
CatalogActions ==
    <<[action |-> "deposit", inputs |-> <<<<"tokenIn", "Token to deposit">>, <<"amountIn", "Amount">>>>],
      ACTION_EMPTY>>

\* the locals of ui::run
UiLocals ==
    /\ ui_state = [tag |-> "NetworkSelector", selected_network |-> 0]
    /\ data = [transactions |-> <<>>, selected_transaction |-> 0,
               selected_parameter |-> 0, selected_value |-> 0]
    /\ cache = [tokens |-> None, protocols |-> None, actions |-> None, networks |-> None]
    /\ pressed = 0

\* ui::run before its loop: the locals, and GetNetworks sent
UiStart ==
    /\ UiLocals
    /\ ui_status = "running"
    /\ ui_to_business = <<GetNetworks>>

\* business() before its loop
BusinessStart ==
    business = [chain_id |-> None, pc |-> "recv", tokens |-> <<>>, stream_chain |-> 0]

\* the two tasks are not followed
NoFlow == [ui |-> "exited", business |-> "done", requests |-> 0, responses |-> 0]

\* the application is not started
AppIdle ==
    /\ UiLocals
    /\ ui_status = "exited"
    /\ ui_to_business = <<>>
    /\ business_to_ui = <<>>
    /\ business = [chain_id |-> None, pc |-> "done", tokens |-> <<>>, stream_chain |-> 0]
    /\ flow = NoFlow

\* ---------------------------------------------------------------------------
\* business(): the loop around recv().await
\* ---------------------------------------------------------------------------
\* the request as send_bundle builds it for a bundle of chain id with txs
BundleRequest(id, txs, from_address) ==
    [method |-> "POST",
     url |-> <<get_api_url, "/shortcuts/bundle">>,
     query |-> <<<<"chainId", u32_to_string(id)>>, <<"fromAddress", from_address>>>>,
     body |-> reqwest_json(to_json(txs))]

\* the bundle the SendBundle arm builds from the triples (action, protocol, args)
BundleOf(d) == [k \in 1..Len(d) |-> NewTransaction(d[k][2], d[k][1], d[k][3])]

unwrap_or(o, default) == IF o = None THEN default ELSE o[1]

\* variant: the stream is always created for chain 1
business_get_tokens_chain1 ==
    /\ page' = 0
    /\ total_pages' = None
    /\ state' = Checking
    /\ requests' = <<>>
    /\ out' = <<>>
    /\ outstanding' = 0
    /\ last' = NoPoll
    /\ panicked' = FALSE
    /\ UNCHANGED server
    /\ business' = [business EXCEPT !.pc = "stream", !.tokens = <<>>, !.stream_chain = 1]
    /\ UNCHANGED <<business_to_ui, bundleVars, sendVars>>

\* Some(UIRequest::GetTokens): the stream is created
business_get_tokens ==
    /\ page' = 0
    /\ total_pages' = None
    /\ state' = Checking
    /\ requests' = <<>>
    /\ out' = <<>>
    /\ outstanding' = 0
    /\ last' = NoPoll
    /\ UNCHANGED <<panicked, server>>
    /\ business' = [business EXCEPT !.pc = "stream", !.tokens = <<>>,
                                    !.stream_chain = unwrap_or(business.chain_id, 1)]
    /\ UNCHANGED <<business_to_ui, bundleVars, sendVars>>

\* variant: the response overtakes the responses that wait in the channel
business_respond_front(response, b) ==
    IF ui_status = "running"
    THEN /\ Len(business_to_ui) < ChannelCapacity
         /\ business_to_ui' = <<response>> \o business_to_ui
         /\ business' = b
    ELSE /\ business' = [business EXCEPT !.pc = "panicked"]
         /\ UNCHANGED business_to_ui

\* business_to_ui_sender.send(response).await.unwrap() and the next state b of
\* the task: the send waits for room and fails once the receiver is dropped
business_respond(response, b) ==
    IF ui_status = "running"
    THEN /\ Len(business_to_ui) < ChannelCapacity
         /\ business_to_ui' = Append(business_to_ui, response)
         /\ business' = b
    ELSE /\ business' = [business EXCEPT !.pc = "panicked"]
         /\ UNCHANGED business_to_ui

\* GetProtocols, GetActions, GetNetworks: the fetch, unwrap, the response sent
business_fetch(response, outcome) ==
    /\ IF outcome = "Err"
       THEN /\ business' = [business EXCEPT !.pc = "panicked"]
            /\ UNCHANGED business_to_ui
       ELSE business_respond(response, business)
    /\ UNCHANGED <<streamVars, bundleVars, sendVars>>

\* Some(UIRequest::SendBundle(data))
business_send_bundle(d, outcome) ==
    /\ chain_id' = 1
    /\ transactions' = BundleOf(d)
    /\ added' = BundleOf(d)
    /\ owned' = FALSE
    /\ posts' = <<BundleRequest(1, BundleOf(d), "0x")>>
    /\ send_result' = Some(IF outcome = "Err" THEN "Err" ELSE "Ok")
    /\ UNCHANGED <<streamVars, business, business_to_ui>>

\* one turn of the loop up to the first await of the arm
business_recv(outcome) ==
    /\ business.pc = "recv"
    /\ IF ui_to_business = <<>>
       THEN \* recv() gives None once the sender is dropped
            /\ ui_status # "running"
            /\ business' = [business EXCEPT !.pc = "done"]
            /\ UNCHANGED <<ui_to_business, business_to_ui, streamVars, bundleVars, sendVars>>
       ELSE LET r == Head(ui_to_business) IN
            /\ ui_to_business' = Tail(ui_to_business)
            /\ CASE r.req = "GetTokens" -> business_get_tokens
                 [] r.req = "GetProtocols" ->
                        business_fetch(ProtocolsResponse(CatalogProtocols), outcome)
                 [] r.req = "GetActions" ->
                        business_fetch(ActionsResponse(CatalogActions), outcome)
                 [] r.req = "GetNetworks" ->
                        business_fetch(NetworksResponse(CatalogNetworks), outcome)
                 [] r.req = "SendBundle" -> business_send_bundle(r.data, outcome)
                 [] r.req = "SetNetwork" ->
                        /\ business' = [business EXCEPT !.chain_id = Some(r.id)]
                        /\ UNCHANGED <<business_to_ui, streamVars, bundleVars, sendVars>>
                 [] OTHER ->
                        /\ business' = [business EXCEPT !.pc = "done"]
                        /\ UNCHANGED <<business_to_ui, streamVars, bundleVars, sendVars>>

\* variant: the loop over the stream stops at the first error item
business_stream_stop_on_err(so, po) ==
    /\ business.pc = "stream"
    /\ poll_next(so, po)
    /\ LET r == last'.ret IN
       CASE panicked' ->
                /\ business' = [business EXCEPT !.pc = "panicked"]
                /\ UNCHANGED business_to_ui
         [] r.kind = "Ok" ->
                /\ business' = [business EXCEPT !.tokens = business.tokens \o r.addrs]
                /\ UNCHANGED business_to_ui
         [] r.kind = "End" \/ r.kind = "Err" ->
                business_respond(TokensResponse(business.tokens),
                                 [business EXCEPT !.pc = "recv"])
         [] OTHER -> UNCHANGED <<business, business_to_ui>>
    /\ UNCHANGED <<ui_to_business, bundleVars, sendVars>>

\* one tokens_streams.next().await poll inside the GetTokens arm, and what the
\* loop does with the item; after the end of the stream the response is sent
business_stream(so, po) ==
    /\ business.pc = "stream"
    /\ poll_next(so, po)
    /\ LET r == last'.ret IN
       CASE panicked' ->
                /\ business' = [business EXCEPT !.pc = "panicked"]
                /\ UNCHANGED business_to_ui
         [] r.kind = "Ok" ->
                /\ business' = [business EXCEPT !.tokens = business.tokens \o r.addrs]
                /\ UNCHANGED business_to_ui
         [] r.kind = "End" ->
                business_respond(TokensResponse(business.tokens),
                                 [business EXCEPT !.pc = "recv"])
         [] OTHER -> UNCHANGED <<business, business_to_ui>>
    /\ UNCHANGED <<ui_to_business, bundleVars, sendVars>>

BusinessRecv == \E outcome \in {"Ok", "Err"} : business_recv(outcome)

BusinessStream ==
    /\ Len(out) < MaxBusinessPulls
    /\ \E so \in ServerOutcomes(server, state), po \in ParsingOutcomes(server) :
           business_stream(so, po)

\* the data of a SendBundle request
SampleData ==
    { <<<<CatalogActions[1], OTHER_PROTOCOL, <<Value("0x"), LastTransaction>>>>,
        <<ACTION_EMPTY, OTHER_PROTOCOL, <<>>>>>> }

Requests ==
    {GetNetworks, SetNetwork(10), GetTokens, GetProtocols, GetActions, Quit}
        \cup {SendBundleRequest(d) : d \in SampleData}

\* ---------------------------------------------------------------------------
\* The UI (ui/mod.rs, ui/keyboard.rs, ui/basic_drawings.rs)
\* ---------------------------------------------------------------------------
\* the characters a user types
Chars == {"S", "E", "I", "D", "1"}
HexDigits == {"E", "D", "1"}
Digits == {"1"}

\* enum KeyEvent as poll_key_event delivers it; Char(c) is written c
Keys == {"None", "Up", "Down", "Left", "Right", "Enter", "Esc", "Backspace"} \cup Chars

\* enum UIState
NetworkSelector(n) == [tag |-> "NetworkSelector", selected_network |-> n]
BrowseTransactions == [tag |-> "BrowseTransactions"]
BrowseParameters == [tag |-> "BrowseParameters"]
BrowseValues == [tag |-> "BrowseValues"]
ActionTypeSelector(n) == [tag |-> "ActionTypeSelector", selected |-> n]
ProtocolSelector(sp, sat) ==
    [tag |-> "ProtocolSelector", selected_protocol |-> sp, selected_action_type |-> sat]
ActionSelector(p, sat, sa) ==
    [tag |-> "ActionSelector", protocol |-> p, selected_action_type |-> sat,
     selected_action |-> sa]
TokenSelector(n) == [tag |-> "TokenSelector", selected_token |-> n]
ArgumentInput(st, it, ats, c) ==
    [tag |-> "ArgumentInput", selecting_type |-> st, input_type |-> it,
     amount_type_selected |-> ats, content |-> c]

\* slice::get with the index counted from 0
vec_get(v, i) == IF i < Len(v) THEN Some(v[i + 1]) ELSE None

\* String from its characters
RECURSIVE to_string(_)
to_string(cs) == IF cs = <<>> THEN "" ELSE cs[1] \o to_string(Tail(cs))

\* content.parse::<usize>().unwrap_or(0)
RECURSIVE parse_usize(_)
parse_usize(cs) ==
    IF cs = <<>> \/ \E i \in 1..Len(cs) : cs[i] \notin Digits THEN 0
    ELSE IF Len(cs) = 1 THEN 1
    ELSE 10 * parse_usize(SubSeq(cs, 1, Len(cs) - 1)) + 1

\* content.starts_with("0x")
starts_with_0x(cs) == Len(cs) >= 2 /\ cs[1] = "0" /\ cs[2] = "x"

\* name.to_lowercase().contains("token") and .contains("address"), for the
\* names of the catalogs above and of ACTION_CALL
contains_token(f) == f \in {"tokenIn", "tokenOut"}
contains_address(f) == f = "address"

handle_navigate(selected, list_size, event) ==
    IF list_size = 0 THEN 0
    ELSE IF event = "Down" THEN (selected + 1) % list_size
    ELSE IF event = "Up" THEN (selected + list_size - 1) % list_size
    ELSE selected

handle_input(value, event, input_type) ==
    IF event \in Chars
    THEN CASE input_type = "Hex" -> IF event \in HexDigits THEN Append(value, event) ELSE value
           [] input_type = "Number" -> IF event \in Digits THEN Append(value, event) ELSE value
           [] input_type = "Text" -> Append(value, event)
           [] OTHER -> value
    ELSE IF event = "Backspace" /\ value # <<>> THEN SubSeq(value, 1, Len(value) - 1)
    ELSE value

\* draw_value_list: the number of items of get_value(param), and whether
\* get_value indexes an empty list
get_value_len(p) == IF p.tag = "ValueArray" THEN Len(p.values) ELSE 1
get_value_panics(p) ==
    /\ p.tag = "ValueArray"
    /\ \E i \in 1..Len(p.values) : p.values[i].tag = "ValueArray" /\ p.values[i].values = <<>>

set_default_param_values(action) ==
    [k \in 1..Len(action.inputs) |->
        LET param == action.inputs[k][1] IN
        IF contains_token(param) \/ contains_address(param) THEN Value("0x")
        ELSE IF param = "args" THEN ValueArray(<<>>)
        ELSE Value("0")]

\* what a handler leaves: the state, the data, what it returns, and whether it panicked
Drawn(s, d, r) == [ui_state |-> s, data |-> d, request |-> r, panic |-> FALSE]
Panicked(s, d) == [ui_state |-> s, data |-> d, request |-> None, panic |-> TRUE]

\* data with value v stored in the selected parameter of the selected transaction
WithParam(d, v) ==
    [d EXCEPT !.transactions[d.selected_transaction + 1][3][d.selected_parameter + 1] = v]

handle_network_selector(event, networks, selected_network, d) ==
    LET n == IF networks = None THEN 1 ELSE Len(networks[1])
        sel == handle_navigate(selected_network, n, event)
        network == IF networks = None THEN None ELSE vec_get(networks[1], sel) IN
    IF event \in {"Enter", "Right"} /\ network # None
    THEN Drawn(BrowseTransactions, d, Some(SetNetwork(network[1].id)))
    ELSE Drawn(NetworkSelector(sel), d, None)

\* the arm of Enter in the value browser
browse_enter_value(s, d, action, param) ==
    LET input == IF action = None THEN None ELSE vec_get(action[1].inputs, d.selected_parameter)
        f == input[1][1] IN
    IF input = None THEN Drawn(s, d, None)
    ELSE IF contains_token(f) THEN Drawn(TokenSelector(0), d, Some(GetTokens))
    ELSE IF contains_address(f) THEN Drawn(ArgumentInput(FALSE, "Hex", 0, <<>>), d, None)
    ELSE IF f = "method" \/ f = "abi" THEN Drawn(ArgumentInput(FALSE, "Text", 0, <<>>), d, None)
    ELSE IF f = "args"
         THEN IF param # None /\ param[1].tag = "ValueArray" /\ param[1].values # <<>>
              THEN Drawn(ArgumentInput(TRUE, "All", 0, <<>>), d, None)
              ELSE Drawn(s, d, None)
    ELSE Drawn(ArgumentInput(TRUE, "Number", 0, <<>>), d, None)

\* variant: D removes the first transaction of the list
browse_key_delete_first(event, s, d, action, param) ==
    CASE event \in {"Enter", "Right"} /\ s.tag = "BrowseTransactions" ->
            Drawn(BrowseParameters, d, None)
      [] event \in {"Enter", "Right"} /\ s.tag = "BrowseParameters" ->
            Drawn(BrowseValues, d, None)
      [] event = "Enter" /\ s.tag = "BrowseValues" -> browse_enter_value(s, d, action, param)
      [] event \in {"Esc", "Left"} /\ s.tag = "BrowseParameters" ->
            Drawn(BrowseTransactions, d, None)
      [] event \in {"Esc", "Left"} /\ s.tag = "BrowseValues" ->
            Drawn(BrowseParameters, d, None)
      [] event = "I" /\ s.tag = "BrowseValues" ->
            IF param # None /\ param[1].tag = "ValueArray"
            THEN Drawn(s, WithParam(d, ValueArray(Append(param[1].values, Value("''")))), None)
            ELSE Drawn(s, d, None)
      [] event = "I" /\ s.tag # "BrowseValues" -> Drawn(ActionTypeSelector(0), d, None)
      [] event = "E" ->
            IF d.transactions # <<>>
            THEN Drawn(BrowseTransactions,
                       [transactions |-> <<>>, selected_transaction |-> 0,
                        selected_parameter |-> 0, selected_value |-> 0],
                       Some(SendBundleRequest(d.transactions)))
            ELSE Drawn(s, d, None)
      [] event = "D" /\ s.tag = "BrowseTransactions" ->
            IF d.transactions # <<>>
            THEN LET rest == Tail(d.transactions) IN
                 Drawn(s, [transactions |-> rest,
                           selected_transaction |->
                               IF d.selected_transaction >= Len(rest)
                               THEN (IF Len(rest) = 0 THEN 0 ELSE Len(rest) - 1)
                               ELSE d.selected_transaction,
                           selected_parameter |-> 0, selected_value |-> 0], None)
            ELSE Drawn(s, d, None)
      [] OTHER -> Drawn(s, d, None)

\* the match on (key_event, ui_state) that ends browse_transactions
browse_key(event, s, d, action, param) ==
    CASE event \in {"Enter", "Right"} /\ s.tag = "BrowseTransactions" ->
            Drawn(BrowseParameters, d, None)
      [] event \in {"Enter", "Right"} /\ s.tag = "BrowseParameters" ->
            Drawn(BrowseValues, d, None)
      [] event = "Enter" /\ s.tag = "BrowseValues" -> browse_enter_value(s, d, action, param)
      [] event \in {"Esc", "Left"} /\ s.tag = "BrowseParameters" ->
            Drawn(BrowseTransactions, d, None)
      [] event \in {"Esc", "Left"} /\ s.tag = "BrowseValues" ->
            Drawn(BrowseParameters, d, None)
      [] event = "I" /\ s.tag = "BrowseValues" ->
            IF param # None /\ param[1].tag = "ValueArray"
            THEN Drawn(s, WithParam(d, ValueArray(Append(param[1].values, Value("''")))), None)
            ELSE Drawn(s, d, None)
      [] event = "I" /\ s.tag # "BrowseValues" -> Drawn(ActionTypeSelector(0), d, None)
      [] event = "E" ->
            IF d.transactions # <<>>
            THEN Drawn(BrowseTransactions,
                       [transactions |-> <<>>, selected_transaction |-> 0,
                        selected_parameter |-> 0, selected_value |-> 0],
                       Some(SendBundleRequest(d.transactions)))
            ELSE Drawn(s, d, None)
      [] event = "D" /\ s.tag = "BrowseTransactions" ->
            IF d.transactions # <<>>
            THEN LET rest == [k \in 1..(Len(d.transactions) - 1) |->
                                IF k <= d.selected_transaction THEN d.transactions[k]
                                ELSE d.transactions[k + 1]] IN
                 Drawn(s, [transactions |-> rest,
                           selected_transaction |->
                               IF d.selected_transaction >= Len(rest)
                               THEN (IF Len(rest) = 0 THEN 0 ELSE Len(rest) - 1)
                               ELSE d.selected_transaction,
                           selected_parameter |-> 0, selected_value |-> 0], None)
            ELSE Drawn(s, d, None)
      [] OTHER -> Drawn(s, d, None)

browse_transactions(event, s, d) ==
    LET sel_tx == IF s.tag = "BrowseTransactions"
                  THEN handle_navigate(d.selected_transaction, Len(d.transactions), event)
                  ELSE d.selected_transaction
        d1 == IF sel_tx # d.selected_transaction
              THEN [d EXCEPT !.selected_transaction = sel_tx,
                             !.selected_parameter = 0, !.selected_value = 0]
              ELSE d
        tx == vec_get(d1.transactions, d1.selected_transaction)
        action == IF tx = None THEN None ELSE Some(tx[1][1])
        param == IF tx = None THEN None ELSE vec_get(tx[1][3], d1.selected_parameter)
        n_inputs == IF action = None THEN 0 ELSE Len(action[1].inputs)
        sel_p == IF s.tag = "BrowseParameters"
                 THEN handle_navigate(d1.selected_parameter, n_inputs, event)
                 ELSE d1.selected_parameter
        d2 == IF sel_p # d1.selected_parameter
              THEN [d1 EXCEPT !.selected_parameter = sel_p, !.selected_value = 0]
              ELSE d1
        n_items == IF param = None THEN 0 ELSE get_value_len(param[1])
        sel_v == IF s.tag = "BrowseValues"
                 THEN handle_navigate(d2.selected_value, n_items, event)
                 ELSE d2.selected_value
        d3 == [d2 EXCEPT !.selected_value = sel_v] IN
    IF action # None /\ d2.selected_parameter >= n_inputs
    THEN \* a.inputs[h.data.selected_parameter] is out of bounds
         Panicked(s, d)
    ELSE IF param # None /\ get_value_panics(param[1]) THEN Panicked(s, d)
    ELSE browse_key(event, s, d3, action, param)

handle_action_type_selection(event, selected, d) ==
    LET sel == handle_navigate(selected, 3, event) IN
    IF event \in {"Enter", "Right"} /\ sel = 0
    THEN Drawn(ProtocolSelector(0, 0), d, None)
    ELSE IF event \in {"Enter", "Right"} /\ sel = 1
    THEN Drawn(BrowseParameters,
               [transactions |-> Append(d.transactions,
                    <<ACTION_CALL, ENSO_PROTOCOL, set_default_param_values(ACTION_CALL)>>),
                selected_transaction |-> Len(d.transactions),
                selected_parameter |-> 0, selected_value |-> 0], None)
    ELSE Drawn(ActionTypeSelector(sel), d, None)

handle_protocol_selection(event, protocols, selected_action_type, selected_protocol, d) ==
    LET n == IF protocols = None THEN 1 ELSE Len(protocols[1])
        sel == handle_navigate(selected_protocol, n, event)
        protocol == IF protocols = None THEN None ELSE vec_get(protocols[1], sel) IN
    IF event \in {"Enter", "Right"} /\ protocol # None
    THEN Drawn(ActionSelector(protocol[1], selected_action_type, 0), d, None)
    ELSE Drawn(ProtocolSelector(sel, selected_action_type), d, None)

handle_action_selection(event, actions, selected_action_type, selected_action, protocol, d) ==
    LET n == IF actions = None THEN 1 ELSE Len(actions[1])
        sel == handle_navigate(selected_action, n, event)
        action == IF actions = None THEN None ELSE vec_get(actions[1], sel) IN
    IF event \in {"Enter", "Right"} /\ action # None
    THEN Drawn(BrowseParameters,
               [transactions |-> Append(d.transactions,
                    <<action[1], protocol, set_default_param_values(action[1])>>),
                selected_transaction |-> Len(d.transactions),
                selected_parameter |-> 0, selected_value |-> 0], None)
    ELSE Drawn(ActionSelector(protocol, selected_action_type, sel), d, None)

handle_token_selection(event, tokens, selected_token, d) ==
    LET n == IF tokens = None THEN 1 ELSE Len(tokens[1])
        sel == handle_navigate(selected_token, n, event)
        token == IF tokens = None THEN None ELSE vec_get(tokens[1], sel)
        tx == vec_get(d.transactions, d.selected_transaction)
        param == IF tx = None THEN None ELSE vec_get(tx[1][3], d.selected_parameter) IN
    IF event = "Enter" /\ token # None
    THEN Drawn(BrowseParameters,
               IF param # None THEN WithParam(d, Value(token[1])) ELSE d, None)
    ELSE IF event \in {"Esc", "Left"} THEN Drawn(BrowseParameters, d, None)
    ELSE Drawn(TokenSelector(sel), d, None)

\* the value v stored where the type selection of handle_args_input stores it
StoreSelected(s, d, param, v, next) ==
    IF param = None THEN Drawn(next, d, None)
    ELSE IF param[1].tag = "ValueArray"
    THEN IF d.selected_value < Len(param[1].values)
         THEN Drawn(next,
                    WithParam(d, ValueArray([param[1].values EXCEPT ![d.selected_value + 1] = v])),
                    None)
         ELSE Panicked(s, d)
    ELSE Drawn(next, WithParam(d, v), None)

\* Enter in the input line of handle_args_input
StoreContent(s, d, param, content) ==
    LET text == IF s.input_type = "Hex" /\ ~starts_with_0x(content)
                THEN "0x" \o to_string(content) ELSE to_string(content) IN
    IF param = None THEN Drawn(BrowseValues, d, None)
    ELSE CASE param[1].tag = "Transaction" ->
                  Drawn(BrowseValues, WithParam(d, Transaction(parse_usize(content))), None)
           [] param[1].tag = "Value" ->
                  Drawn(BrowseValues, WithParam(d, Value(text)), None)
           [] param[1].tag = "ValueArray" ->
                  IF d.selected_value >= Len(param[1].values) THEN Panicked(s, d)
                  ELSE LET arg == param[1].values[d.selected_value + 1] IN
                       CASE arg.tag = "Transaction" ->
                                StoreSelected(s, d, param, Transaction(parse_usize(content)),
                                              BrowseValues)
                         [] arg.tag = "Value" ->
                                StoreSelected(s, d, param, Value(text), BrowseValues)
                         [] OTHER -> Drawn(BrowseValues, d, None)
           [] OTHER -> Drawn(BrowseValues, d, None)

handle_args_input(event, s, d) ==
    LET tx == vec_get(d.transactions, d.selected_transaction)
        action == IF tx = None THEN None ELSE Some(tx[1][1])
        param == IF tx = None THEN None ELSE vec_get(tx[1][3], d.selected_parameter)
        input_title == IF action = None THEN None
                       ELSE vec_get(action[1].inputs, d.selected_parameter) IN
    IF s.selecting_type
    THEN LET n == IF s.input_type = "All" THEN 5 ELSE 3
             sel == handle_navigate(s.amount_type_selected, n, event)
             here == [s EXCEPT !.amount_type_selected = sel] IN
         IF event = "Enter" /\ sel = 0
         THEN StoreSelected(s, d, param, LastTransaction, BrowseValues)
         ELSE IF event = "Enter" /\ sel = 1
         THEN StoreSelected(s, d, param, Transaction(0),
                            [here EXCEPT !.selecting_type = FALSE, !.input_type = "Number"])
         ELSE IF event = "Enter" /\ sel \in 2..4
         THEN StoreSelected(s, d, param, Value("0"),
                            [here EXCEPT !.selecting_type = FALSE,
                                         !.input_type = CASE sel = 2 -> "Number"
                                                          [] sel = 3 -> "Text"
                                                          [] OTHER -> "Hex"])
         ELSE IF event = "Esc" THEN Drawn(BrowseValues, d, None)
         ELSE Drawn(here, d, None)
    ELSE IF param # None /\ get_value_panics(param[1]) THEN Panicked(s, d)
    ELSE IF input_title = None THEN Drawn(s, d, None)
    ELSE LET content == handle_input(s.content, event, s.input_type) IN
         IF event = "Enter" THEN StoreContent(s, d, param, content)
         ELSE IF event = "Esc" THEN Drawn(BrowseValues, d, None)
         ELSE Drawn([s EXCEPT !.content = content], d, None)

layout(event, s, d, c) ==
    CASE s.tag = "NetworkSelector" ->
            handle_network_selector(event, c.networks, s.selected_network, d)
      [] s.tag \in {"BrowseTransactions", "BrowseParameters", "BrowseValues"} ->
            LET r == browse_transactions(event, s, d) IN
            IF r.request # None /\ c.tokens = None THEN r ELSE [r EXCEPT !.request = None]
      [] s.tag = "ActionTypeSelector" ->
            LET r == handle_action_type_selection(event, s.selected, d) IN
            IF r.ui_state.tag = "ProtocolSelector" /\ c.protocols = None
            THEN [r EXCEPT !.request = Some(GetProtocols)] ELSE r
      [] s.tag = "ProtocolSelector" ->
            LET r == handle_protocol_selection(event, c.protocols, s.selected_action_type,
                                               s.selected_protocol, d) IN
            IF r.ui_state.tag = "ActionSelector" /\ c.actions = None
            THEN [r EXCEPT !.request = Some(GetActions)] ELSE r
      [] s.tag = "ActionSelector" ->
            handle_action_selection(event, c.actions, s.selected_action_type,
                                    s.selected_action, s.protocol, d)
      [] s.tag = "TokenSelector" -> handle_token_selection(event, c.tokens, s.selected_token, d)
      [] OTHER -> handle_args_input(event, s, d)


\* the receiver of the business task is dropped
BusinessGone == business.pc \in {"done", "panicked"}

\* _ = ui_to_business_sender.send(m).await: waits for room; fails, ignored,
\* once the receiver is dropped
ui_send(m) ==
    IF BusinessGone THEN UNCHANGED ui_to_business
    ELSE /\ Len(ui_to_business) < ChannelCapacity
         /\ ui_to_business' = Append(ui_to_business, m)

\* cache after time::timeout(10 ms, business_to_ui_receiver.recv())
Received ==
    IF business_to_ui = <<>> THEN cache
    ELSE LET r == Head(business_to_ui) IN
         CASE r.resp = "Protocols" -> [cache EXCEPT !.protocols = Some(r.v)]
           [] r.resp = "Actions" -> [cache EXCEPT !.actions = Some(r.v)]
           [] r.resp = "Tokens" -> [cache EXCEPT !.tokens = Some(r.v)]
           [] OTHER -> [cache EXCEPT !.networks = Some(r.v)]

\* one turn of the loop of run, from poll_key_event to the send of what
\* layout returns for the key polled
ui_turn(event) ==
    /\ ui_status = "running"
    /\ ~(event = "Esc" /\ ui_state.tag = "BrowseTransactions")
    /\ IF event = "None" THEN UNCHANGED pressed
       ELSE pressed < MaxKeys /\ pressed' = pressed + 1
    /\ LET r == layout(event, ui_state, data, Received) IN
       /\ cache' = Received
       /\ business_to_ui' = IF business_to_ui = <<>> THEN business_to_ui
                            ELSE Tail(business_to_ui)
       /\ IF r.panic
          THEN /\ ui_status' = "panicked"
               /\ UNCHANGED <<ui_state, data, ui_to_business>>
          ELSE /\ ui_state' = r.ui_state
               /\ data' = r.data
               /\ UNCHANGED ui_status
               /\ IF r.request = None THEN UNCHANGED ui_to_business
                  ELSE ui_send(r.request[1])
    /\ UNCHANGED business

\* (KeyEvent::Esc, UIState::BrowseTransactions) => break, and what follows the loop
ui_break ==
    /\ ui_status = "running"
    /\ ui_state.tag = "BrowseTransactions"
    /\ pressed < MaxKeys /\ pressed' = pressed + 1
    /\ ui_send(Quit)
    /\ ui_status' = "exited"
    /\ UNCHANGED <<ui_state, data, cache, business_to_ui, business>>

UiTurn == \E event \in Keys : ui_turn(event)

UiBreak == ui_break

\* the token stream on its own
Init ==
    /\ tokens_stream /\ BundleNew /\ NoSubmission /\ other = NoInstance /\ fetch = NoFetch
    /\ AppIdle

Next ==
    Poll /\ UNCHANGED bundleVars /\ UNCHANGED sendVars /\ UNCHANGED <<other, fetch>>
         /\ UNCHANGED appVars

Spec == Init /\ [][Next]_vars

\* the bundle on its own
IdleServer == [reliable |-> TRUE, last_page |-> 1, per_page |-> 1, last_count |-> 1]

InitBundle ==
    /\ tokens_stream /\ server = IdleServer
    /\ BundleNew /\ NoSubmission /\ other = NoInstance /\ fetch = NoFetch
    /\ AppIdle

NextBundle ==
    \/ AddAction /\ UNCHANGED streamVars /\ UNCHANGED sendVars /\ UNCHANGED <<other, fetch>> /\ UNCHANGED appVars
    \/ AddEnsoAction /\ UNCHANGED streamVars /\ UNCHANGED sendVars /\ UNCHANGED <<other, fetch>> /\ UNCHANGED appVars
    \/ AddCall /\ UNCHANGED streamVars /\ UNCHANGED sendVars /\ UNCHANGED <<other, fetch>> /\ UNCHANGED appVars

SpecBundle == InitBundle /\ [][NextBundle]_vars

\* a bundle that is composed by its owner and then submitted
InitSend ==
    /\ tokens_stream /\ server = IdleServer
    /\ \E id \in ChainIds : Bundle_new(id)
    /\ NoSubmission
    /\ other = NoInstance
    /\ fetch = NoFetch
    /\ AppIdle

Composing == owned /\ Len(transactions) < MaxSendTx

NextSend ==
    \/ Composing /\ AddAction /\ UNCHANGED streamVars /\ UNCHANGED sendVars /\ UNCHANGED <<other, fetch>> /\ UNCHANGED appVars
    \/ Composing /\ AddEnsoAction /\ UNCHANGED streamVars /\ UNCHANGED sendVars /\ UNCHANGED <<other, fetch>> /\ UNCHANGED appVars
    \/ Composing /\ AddCall /\ UNCHANGED streamVars /\ UNCHANGED sendVars /\ UNCHANGED <<other, fetch>> /\ UNCHANGED appVars
    \/ SendBundle /\ UNCHANGED streamVars /\ UNCHANGED <<other, fetch>> /\ UNCHANGED appVars

SpecSend == InitSend /\ [][NextSend]_vars

\* two streams of one client, polled in any interleaving
\* the servers the two streams are observed against: one entry on every page
TwoServers == {srv \in Servers : srv.per_page = 1 /\ srv.last_count = 1}

InitTwo ==
    /\ tokens_stream /\ server \in TwoServers
    /\ BundleNew /\ NoSubmission
    /\ tokens_stream_other
    /\ fetch = NoFetch
    /\ AppIdle

NextTwo ==
    \/ PollFirst /\ UNCHANGED bundleVars /\ UNCHANGED sendVars /\ UNCHANGED fetch /\ UNCHANGED appVars
    \/ PollOther /\ UNCHANGED bundleVars /\ UNCHANGED sendVars /\ UNCHANGED fetch /\ UNCHANGED appVars
    \/ DropOther /\ UNCHANGED bundleVars /\ UNCHANGED sendVars /\ UNCHANGED fetch /\ UNCHANGED appVars

SpecTwo == InitTwo /\ [][NextTwo]_vars

\* one call of a one-shot fetch
InitFetchSpec ==
    /\ tokens_stream /\ server = IdleServer
    /\ BundleNew /\ NoSubmission /\ other = NoInstance
    /\ InitFetch
    /\ AppIdle

NextFetch ==
    \/ FetchCall /\ UNCHANGED streamVars /\ UNCHANGED bundleVars /\ UNCHANGED sendVars /\ UNCHANGED other /\ UNCHANGED appVars
    \/ FetchSend /\ UNCHANGED streamVars /\ UNCHANGED bundleVars /\ UNCHANGED sendVars /\ UNCHANGED other /\ UNCHANGED appVars
    \/ FetchJson /\ UNCHANGED streamVars /\ UNCHANGED bundleVars /\ UNCHANGED sendVars /\ UNCHANGED other /\ UNCHANGED appVars

SpecFetch == InitFetchSpec /\ [][NextFetch]_vars

\* the servers the business task talks to: one token per page
BusinessServers == {srv \in TwoServers : srv.last_page <= 1}

\* the business task with the requests that wait for it; the UI is running or
\* has returned
InitBusiness ==
    /\ tokens_stream /\ server \in BusinessServers
    /\ BundleNew /\ NoSubmission /\ other = NoInstance /\ fetch = NoFetch
    /\ UiLocals /\ ui_status \in {"running", "exited"}
    /\ BusinessStart
    /\ \E rest \in SeqsUpTo(Requests, MaxRequests) : ui_to_business = <<GetNetworks>> \o rest
    /\ business_to_ui = <<>>
    /\ flow = NoFlow

NextBusiness ==
    \/ BusinessRecv /\ UNCHANGED <<other, fetch, flow>> /\ UNCHANGED uiVars
    \/ BusinessStream /\ UNCHANGED <<other, fetch, flow>> /\ UNCHANGED uiVars

SpecBusiness == InitBusiness /\ [][NextBusiness]_vars

\* the servers of the whole application: they answer every request
AppServers == {srv \in BusinessServers : srv.reliable}

\* the application: the UI task and the business task
InitApp ==
    /\ tokens_stream /\ server \in AppServers
    /\ BundleNew /\ NoSubmission /\ other = NoInstance /\ fetch = NoFetch
    /\ UiStart
    /\ BusinessStart
    /\ business_to_ui = <<>>
    /\ flow = NoFlow

NextApp ==
    \/ UiTurn /\ UNCHANGED <<streamVars, bundleVars, sendVars, other, fetch, flow>>
    \/ UiBreak /\ UNCHANGED <<streamVars, bundleVars, sendVars, other, fetch, flow>>
    \/ BusinessRecv /\ UNCHANGED <<other, fetch, flow>> /\ UNCHANGED uiVars
    \/ BusinessStream /\ UNCHANGED <<other, fetch, flow>> /\ UNCHANGED uiVars

SpecApp == InitApp /\ [][NextApp]_vars

\* the application in front of any server, with the business task scheduled
\* whenever it can take a step
InitExit ==
    /\ tokens_stream /\ server \in BusinessServers
    /\ BundleNew /\ NoSubmission /\ other = NoInstance /\ fetch = NoFetch
    /\ UiStart
    /\ BusinessStart
    /\ business_to_ui = <<>>
    /\ flow = NoFlow

BusinessStep ==
    (BusinessRecv \/ BusinessStream) /\ UNCHANGED <<other, fetch, flow>> /\ UNCHANGED uiVars

SpecExit == InitExit /\ [][NextApp]_vars /\ WF_vars(BusinessStep)

\* ---------------------------------------------------------------------------
\* run and business seen from their channels: each message is reduced to its
\* presence in a channel, a request to whether its arm answers it
\* ---------------------------------------------------------------------------
\* main: both channels are empty, both tasks are spawned
FlowStart == [ui |-> "start", business |-> "recv", requests |-> 0, responses |-> 0]

BusinessEnded == flow.business \in {"done", "panicked"}

\* _ = ui_to_business_sender.send(..).await, after which run is at next: the
\* send waits for room; once the receiver is dropped it fails and is ignored
flow_send(next) ==
    IF BusinessEnded THEN flow' = [flow EXCEPT !.ui = next]
    ELSE /\ flow.requests < ChannelCapacity
         /\ flow' = [flow EXCEPT !.requests = @ + 1, !.ui = next]

\* the send of GetNetworks before the loop
RunFirstSend == flow.ui = "start" /\ flow_send("draw")

\* terminal.draw with layout: it returns a request or none, or it fails (an
\* io error, a panic in a handler) and run is left
RunLayout(outcome) ==
    /\ flow.ui = "draw"
    /\ flow' = [flow EXCEPT !.ui = CASE outcome = "Some" -> "send"
                                     [] outcome = "None" -> "poll"
                                     [] OTHER -> "exited"]

\* if let Some(msg) = msg: the send of the request
RunSend == flow.ui = "send" /\ flow_send("poll")

\* poll_key_event and the match on the key: break, go on, or the error of `?`
RunPollKey(key) ==
    /\ flow.ui = "poll"
    /\ flow' = [flow EXCEPT !.ui = CASE key = "Break" -> "quit"
                                     [] key = "Err" -> "exited"
                                     [] OTHER -> "recv"]

\* variant: the loop does not look at the responses
RunRecv_never ==
    /\ flow.ui = "recv"
    /\ flow' = [flow EXCEPT !.ui = "draw"]

\* time::timeout(10 ms, business_to_ui_receiver.recv()): a response that
\* waits is taken at once, otherwise the turn goes on without one
RunRecv ==
    /\ flow.ui = "recv"
    /\ flow' = [flow EXCEPT !.responses = IF @ > 0 THEN @ - 1 ELSE 0, !.ui = "draw"]

\* after the loop: the send of Quit, then run returns and its ends of the
\* channels are dropped
RunQuit == flow.ui = "quit" /\ flow_send("exited")

\* ui_to_business_receiver.recv().await and the match: kind is what the arm of
\* the request does with the response channel
BusinessTake(kind) ==
    /\ flow.business = "recv"
    /\ IF flow.requests = 0
       THEN /\ flow.ui = "exited"
            /\ flow' = [flow EXCEPT !.business = "done"]
       ELSE flow' = [flow EXCEPT !.requests = @ - 1,
                                 !.business = CASE kind = "Answered" -> "arm"
                                                [] kind = "Quit" -> "done"
                                                [] OTHER -> "recv"]

\* the fetch of an answering arm and its unwrap
BusinessArm(outcome) ==
    /\ flow.business = "arm"
    /\ flow' = [flow EXCEPT !.business = IF outcome = "Ok" THEN "send" ELSE "panicked"]

\* business_to_ui_sender.send(..).await.unwrap(): the send waits for room and
\* fails once the receiver is dropped
BusinessSend ==
    /\ flow.business = "send"
    /\ IF flow.ui = "exited"
       THEN flow' = [flow EXCEPT !.business = "panicked"]
       ELSE /\ flow.responses < ChannelCapacity
            /\ flow' = [flow EXCEPT !.responses = @ + 1, !.business = "recv"]

\* what stays as it is while only the channels are followed
RestIdle ==
    UNCHANGED <<streamVars, bundleVars, sendVars, other, fetch, ui_state, data, cache,
                ui_status, ui_to_business, business_to_ui, business, pressed>>

InitChannels ==
    /\ tokens_stream /\ server \in AppServers
    /\ BundleNew /\ NoSubmission /\ other = NoInstance /\ fetch = NoFetch
    /\ UiLocals
    /\ ui_status = "exited"
    /\ ui_to_business = <<>>
    /\ business_to_ui = <<>>
    /\ business = [chain_id |-> None, pc |-> "done", tokens |-> <<>>, stream_chain |-> 0]
    /\ flow = FlowStart

NextChannels ==
    \/ RunFirstSend /\ RestIdle
    \/ (\E outcome \in {"Some", "None", "Err"} : RunLayout(outcome)) /\ RestIdle
    \/ RunSend /\ RestIdle
    \/ (\E key \in {"Break", "Key", "Err"} : RunPollKey(key)) /\ RestIdle
    \/ RunRecv /\ RestIdle
    \/ RunQuit /\ RestIdle
    \/ (\E kind \in {"Answered", "Unanswered", "Quit"} : BusinessTake(kind)) /\ RestIdle
    \/ (\E outcome \in {"Ok", "Err"} : BusinessArm(outcome)) /\ RestIdle
    \/ BusinessSend /\ RestIdle

SpecChannels == InitChannels /\ [][NextChannels]_vars
\* ---------------------------------------------------------------------------
\* Properties of the token stream
\* ---------------------------------------------------------------------------
\* the addresses of page p of the server's catalog, in page order
Addrs(p) == [j \in 1..EntryCount(server, p) |-> TokenAddress(p, j)]

OkItems == SelectSeq(out, LAMBDA r : r.kind = "Ok")

\* C1: when the request future of a pull resolves to an error, the pull yields
\* one error item and the stream is back in Checking, so that the next pull
\* sends a fresh request for page cursor+1
C1_TransportErrorBackToIdle ==
    last.srv = "Err" =>
        /\ last.ret = ReadyErr("Couldn't get tokens")
        /\ state = Checking

\* C2: a failed decode of page p yields exactly one error item and leaves the
\* stream in Checking with cursor and totalPages unchanged; the next pull
\* requests page p again and, when that attempt succeeds, yields page p
C2_DecodeErrorRetriesSamePage ==
    [][/\ last'.parse = "Err" =>
            /\ out' = Append(out, ReadyErr("Couldn't parse result"))
            /\ state' = Checking
            /\ page' = page
            /\ total_pages' = total_pages
       /\ last.parse = "Err" =>
            /\ last'.issued
            /\ requests' = Append(requests, last.page)
            /\ (last'.srv = "Ok" /\ last'.parse = "Ok") =>
                   out' = Append(out, ReadyOk(Addrs(last.page), last.page))]_vars

C2_Witness ==
    /\ Len(out) >= 2
    /\ out[Len(out) - 1] = ReadyErr("Couldn't parse result")
    /\ out[Len(out)].kind = "Ok"
    /\ out[Len(out)].page = 2
    /\ Len(out[Len(out)].addrs) > 0

\* C3: against a server that never fails and always reports lastPage = L >= 1,
\* the results of the pulls are page 1 .. page L in order and then
\* end-of-sequence, and the entry counts of the items sum to the server's total
C3_ReliableServerYieldsAllPages ==
    (server.reliable /\ server.last_page >= 1) =>
        /\ \A i \in 1..Len(out) :
              IF i <= server.last_page
              THEN out[i] = ReadyOk(Addrs(i), i)
              ELSE out[i] = ReadyNone
        /\ Len(out) > server.last_page =>
              SumSeq([i \in 1..Len(OkItems) |-> Len(OkItems[i].addrs)])
                  = (server.last_page - 1) * server.per_page + server.last_count

C3_Witness ==
    /\ server.reliable
    /\ server.last_page = 2
    /\ server.per_page = 2
    /\ server.last_count = 1
    /\ Len(out) = 3
    /\ out[3] = ReadyNone

\* C4 as stated: the pages requested are strictly ascending and the pages
\* yielded are strictly ascending
C4_RequestsStrictlyAscending ==
    /\ \A i, j \in 1..Len(requests) : i < j => requests[i] < requests[j]
    /\ \A i, j \in 1..Len(OkItems) : i < j => OkItems[i].page < OkItems[j].page

\* C4 as amended: the pages requested never go back (a page is requested again
\* after a failure), the pages yielded are 1, 2, 3, .. in order, a request is
\* sent only when no operation is outstanding, and page k+1 is requested only
\* after page k was yielded
C4_PagesInOrder ==
    /\ [](/\ \A i, j \in 1..Len(requests) : i < j => requests[i] <= requests[j]
          /\ \A i \in 1..Len(OkItems) : OkItems[i].page = i
          /\ \A i \in 1..Len(requests) : requests[i] <= Len(OkItems) + 1
          /\ requests # <<>> => requests[1] = 1)
    /\ [][requests' # requests =>
            /\ outstanding = 0
            /\ requests' = Append(requests, Len(OkItems) + 1)]_vars

C4_Witness ==
    /\ requests = <<1, 1, 2, 2>>
    /\ Len(OkItems) = 2
    /\ \E i \in 1..Len(out) : out[i].kind = "Err"

\* C5: at most one network operation is outstanding; a request is sent only by
\* a call made in Checking, one per call, so a call made while the request or
\* the decode is pending sends none
C5_SingleFlight ==
    /\ [](/\ outstanding \in {0, 1}
          /\ outstanding = 1 <=> (state.tag # "Checking" /\ ~state.fut[1].done))
    /\ [][/\ requests' # requests => (state = Checking /\ Len(requests') = Len(requests) + 1)
          /\ state.tag # "Checking" => requests' = requests]_vars

C5_Witness ==
    /\ last.from = "PollingServer"
    /\ last.srv = "Pending"
    /\ state.tag = "PollingServer"
    /\ outstanding = 1
    /\ Len(requests) = 2

\* C6: a call made in Checking returns end-of-sequence without sending a
\* request exactly when totalPages is known and cursor >= totalPages; in every
\* other case it sends the request for page cursor+1 and enters PollingServer
C6_IdlePull ==
    [][state = Checking =>
          IF total_pages # None /\ page >= total_pages[1]
          THEN /\ last'.ret = ReadyNone
               /\ requests' = requests
               /\ state' = Checking
          ELSE /\ last'.ret # ReadyNone
               /\ requests' = Append(requests, page + 1)
               /\ last'.visited # <<>>
               /\ last'.visited[1] = "PollingServer"
               /\ state'.tag = "PollingServer" => state'.fut = Some([page |-> page + 1, done |-> last'.srv = "Err"])]_vars

C6_Witness ==
    /\ last.from = "Checking"
    /\ last.ret = ReadyNone
    /\ page = 2
    /\ total_pages = Some(1)

\* C7: a successful decode sets totalPages to the lastPage the page reports,
\* adds one to the cursor, returns to Checking and yields the addresses of the
\* page's entries in page order as one item
C7_DecodeSuccess ==
    [][last'.parse = "Ok" =>
          /\ total_pages' = Some(last'.lp)
          /\ page' = page + 1
          /\ state' = Checking
          /\ out' = Append(out, ReadyOk(Addrs(last'.page), last'.page))]_vars

C7_Witness ==
    /\ last.parse = "Ok"
    /\ last.lp = 2
    /\ last.page = 2
    /\ Len(out[Len(out)].addrs) = 2

\* C8: totalPages is unknown until the first successful decode and afterwards
\* is the lastPage of the latest successful decode, errors leaving it alone;
\* while it is unknown a call made in Checking sends a request and does not
\* return end-of-sequence
C8_TotalPagesTracksLastDecode ==
    /\ [](total_pages = None <=> OkItems = <<>>)
    /\ [][/\ last'.parse = "Ok" => total_pages' = Some(last'.lp)
          /\ last'.parse # "Ok" => total_pages' = total_pages
          /\ (total_pages = None /\ state = Checking) =>
                (last'.issued /\ Len(requests') = Len(requests) + 1 /\ last'.ret # ReadyNone)]_vars

C8_Witness ==
    /\ Len(out) >= 3
    /\ out[1].kind = "Err"
    /\ out[2].kind = "Ok"
    /\ out[3].kind = "Err"
    /\ total_pages = Some(last.lp)
    /\ last.lp = 2
    /\ last.parse = "Ok"
\* ---------------------------------------------------------------------------
\* Properties of the bundle
\* ---------------------------------------------------------------------------
\* position j of transaction tx is bound: it has a parameter name and no later
\* bound position carries the same name
Bound(tx, j) ==
    /\ j <= Min(Len(tx.action.inputs), Len(tx.args))
    /\ \A j2 \in (j + 1)..Min(Len(tx.action.inputs), Len(tx.args)) :
          tx.action.inputs[j2][1] # tx.action.inputs[j][1]

\* C9: a LastTransaction argument of the transaction at index i serialises to
\* {useOutputOfCallAt: i-1} when i > 0 and to the string "0" when i = 0
C9_LastTransactionResolution ==
    \A k \in 1..Len(transactions) :
        LET tx == transactions[k]
            i == k - 1 IN
        \A j \in 1..Len(tx.args) :
            (tx.args[j] = LastTransaction /\ Bound(tx, j)) =>
                Records[k]["args"].map[tx.action.inputs[j][1]] =
                    IF i > 0
                    THEN [json |-> "Object",
                          map |-> [x \in {"useOutputOfCallAt"} |-> [json |-> "Number", n |-> i - 1]]]
                    ELSE [json |-> "String", s |-> "0"]

C9_Witness ==
    /\ Len(transactions) = 3
    /\ transactions[1].args = <<LastTransaction, Transaction(1)>>
    /\ transactions[1].action = ACTION_ROUTE
    /\ Records[1]["args"].map["amountIn"].json = "String"
    /\ transactions[3].args[1] = LastTransaction
    /\ transactions[3].action = ACTION_CALL
    /\ Records[3]["args"].map["address"].json = "Object"

\* C10: after any sequence of add_action / add_enso_action / add_call calls the
\* serialised bundle has one record per transaction added, and record j
\* describes the j-th transaction added
C10_OneRecordPerTransactionInOrder ==
    /\ Len(Records) = Len(added)
    /\ Len(Records) = Len(transactions)
    /\ \A j \in 1..Len(added) :
          /\ Records[j]["protocol"] = JString(added[j].protocol.slug)
          /\ Records[j]["action"] = JString(added[j].action.action)
          /\ Records[j] = tx_to_json(added[j], j - 1)

C10_Witness ==
    /\ Len(added) = 2
    /\ Len(Records) = 2
    /\ Records[1]["action"] = JString("route")
    /\ Records[1]["protocol"] = JString("aave-v3")
    /\ Records[2]["action"] = JString("call")
    /\ DOMAIN Records[2]["args"].map = {"address", "method", "abi", "args"}
\* an output reference as it appears on the wire
OutputRef(n) ==
    [json |-> "Object", map |-> [x \in {"useOutputOfCallAt"} |-> [json |-> "Number", n |-> n]]]

\* the wire value of argument v of the transaction at index i, as section 4.2 states it
RECURSIVE Resolved(_, _)
Resolved(v, i) ==
    IF v.tag = "ValueArray"
    THEN [json |-> "Array", items |-> [q \in 1..Len(v.values) |-> Resolved(v.values[q], i)]]
    ELSE IF v.tag = "Value" THEN [json |-> "String", s |-> v.v]
    ELSE IF v.tag = "Transaction" THEN OutputRef(v.t)
    ELSE IF i > 0 THEN OutputRef(i - 1) ELSE [json |-> "String", s |-> "0"]

\* the parameter names of a schema, and the number of its bound positions
Names(action, n) == {action.inputs[j][1] : j \in 1..n}
NBound(tx) == Min(Len(tx.action.inputs), Len(tx.args))

\* the serialised args mapping of transaction k
ArgsOf(k) == Records[k]["args"].map

\* C11: a Transaction(n) argument serialises to {useOutputOfCallAt: n} whatever
\* n is: the transaction's own index, a later one, or one past the end of the
\* bundle, at the top level and inside a list
C11_IndexedOutputVerbatim ==
    \A k \in 1..Len(transactions) :
        LET tx == transactions[k] IN
        \A j \in 1..Len(tx.args) :
            Bound(tx, j) =>
                /\ tx.args[j].tag = "Transaction" =>
                      ArgsOf(k)[tx.action.inputs[j][1]] = OutputRef(tx.args[j].t)
                /\ tx.args[j].tag = "ValueArray" =>
                      \A q \in 1..Len(tx.args[j].values) :
                          tx.args[j].values[q].tag = "Transaction" =>
                              ArgsOf(k)[tx.action.inputs[j][1]].items[q]
                                  = OutputRef(tx.args[j].values[q].t)

C11_Witness ==
    /\ Len(transactions) = 2
    /\ transactions[1].action = ACTION_ROUTE
    /\ transactions[1].args[1] = Transaction(MaxTx)
    /\ ArgsOf(1)["amountIn"] = OutputRef(MaxTx)
    /\ transactions[2].action = ACTION_CALL
    /\ transactions[2].args[2] = Transaction(1)
    /\ ArgsOf(2)["method"] = OutputRef(1)

\* C12: a ValueArray argument of the transaction at index i serialises to an
\* array of the same length and order, every item resolved with index i at
\* every depth; a nested LastTransaction gives i-1, or "0" when i = 0
C12_ListResolvedWithSameIndex ==
    \A k \in 1..Len(transactions) :
        LET tx == transactions[k] IN
        \A j \in 1..Len(tx.args) :
            (Bound(tx, j) /\ tx.args[j].tag = "ValueArray") =>
                LET arr == ArgsOf(k)[tx.action.inputs[j][1]] IN
                /\ arr.json = "Array"
                /\ Len(arr.items) = Len(tx.args[j].values)
                /\ \A q \in 1..Len(arr.items) : arr.items[q] = Resolved(tx.args[j].values[q], k - 1)

C12_Witness ==
    /\ Len(transactions) = 2
    /\ transactions[1].action = ACTION_ROUTE
    /\ transactions[1].args[2] = ValueArray(<<ValueArray(<<LastTransaction>>), Value("0x9362")>>)
    /\ ArgsOf(1)["slippage"].items[1].items[1] = [json |-> "String", s |-> "0"]
    /\ transactions[2].action = ACTION_CALL
    /\ transactions[2].args[2] = ValueArray(<<ValueArray(<<LastTransaction>>), Value("0x9362")>>)
    /\ ArgsOf(2)["method"].items[1].items[1] = OutputRef(0)
    /\ ArgsOf(2)["method"].items[2] = [json |-> "String", s |-> "0x9362"]

\* C13: with m values against n > m parameters the args mapping holds exactly
\* the first m parameter names, bound to the m values
C13_PositionalTruncation ==
    \A k \in 1..Len(transactions) :
        LET tx == transactions[k]
            m == Len(tx.args) IN
        m < Len(tx.action.inputs) =>
            /\ DOMAIN ArgsOf(k) = Names(tx.action, m)
            /\ Cardinality(DOMAIN ArgsOf(k)) = m
            /\ \A j \in 1..m : ArgsOf(k)[tx.action.inputs[j][1]] = Resolved(tx.args[j], k - 1)

C13_Witness ==
    /\ Len(transactions) = 1
    /\ transactions[1].action = ACTION_ROUTE
    /\ Len(transactions[1].args) = 2
    /\ DOMAIN ArgsOf(1) = {"amountIn", "slippage"}

\* C14: every record has protocol = the protocol slug of its transaction,
\* action = the name of its schema, and args binding the j-th parameter name to
\* the resolved j-th value for every j up to min(#parameters, #values), and
\* nothing else
C14_RecordShape ==
    \A k \in 1..Len(transactions) :
        LET tx == transactions[k] IN
        /\ DOMAIN Records[k] = {"protocol", "action", "args"}
        /\ Records[k]["protocol"] = [json |-> "String", s |-> tx.protocol.slug]
        /\ Records[k]["action"] = [json |-> "String", s |-> tx.action.action]
        /\ Records[k]["args"].json = "Object"
        /\ DOMAIN ArgsOf(k) = Names(tx.action, NBound(tx))
        /\ \A j \in 1..NBound(tx) : ArgsOf(k)[tx.action.inputs[j][1]] = Resolved(tx.args[j], k - 1)

C14_Witness ==
    /\ Len(transactions) = 2
    /\ transactions[2].protocol = OTHER_PROTOCOL
    /\ transactions[2].action = ACTION_CALL
    /\ Len(transactions[2].args) = 5
    /\ ArgsOf(2)["abi"] = OutputRef(0)
    /\ ArgsOf(2)["args"] = [json |-> "String", s |-> "0"]

\* C19: a transaction whose schema has no parameters serialises with args the
\* empty mapping, whatever values it was given
C19_NoParametersEmptyArgs ==
    \A k \in 1..Len(transactions) :
        transactions[k].action.inputs = <<>> =>
            /\ Records[k]["args"].json = "Object"
            /\ DOMAIN Records[k]["args"].map = {}

C19_Witness ==
    /\ Len(transactions) = 2
    /\ transactions[2].action = ACTION_EMPTY
    /\ Len(transactions[2].args) = 5
    /\ Records[2]["action"] = JString("harvest")
\* a list of literal values
AllLiterals(args) == \A j \in 1..Len(args) : args[j].tag = "Value"

\* the record expected for a schema whose n parameters are bound to n literals
LiteralRecord(action, args) ==
    [protocol |-> [json |-> "String", s |-> "enso"],
     action |-> [json |-> "String", s |-> action.action],
     args |-> [json |-> "Object",
               map |-> [x \in Names(action, Len(args)) |->
                          [json |-> "String",
                           s |-> args[CHOOSE j \in 1..Len(args) : action.inputs[j][1] = x].v]]]]

\* the record expected for a direct call at index i with three literal head values
CallRecord(h, a, i) ==
    [protocol |-> [json |-> "String", s |-> "enso"],
     action |-> [json |-> "String", s |-> "call"],
     args |-> [json |-> "Object",
               map |-> [x \in {"address", "method", "abi", "args"} |->
                          CASE x = "address" -> [json |-> "String", s |-> h[1].v]
                            [] x = "method"  -> [json |-> "String", s |-> h[2].v]
                            [] x = "abi"     -> [json |-> "String", s |-> h[3].v]
                            [] OTHER         -> [json |-> "Array",
                                                 items |-> [q \in 1..Len(a) |-> Resolved(a[q], i)]]]]]

\* C16: add_enso_action(schema with n parameters, n literals) followed by
\* add_call(three literal head values, abi args) serialises to exactly two
\* records: the schema with every parameter bound to its literal, then the
\* call with address, method, abi and the array of resolved abi args
C16_RouteThenCallRoundTrip ==
    [][\A action \in Actions, args \in ArgLists, h \in HeadLists, a \in AbiLists :
          (/\ transactions = <<[protocol |-> ENSO_PROTOCOL, action |-> action, args |-> args]>>
           /\ AllLiterals(args) /\ Len(args) = Len(action.inputs)
           /\ AllLiterals(h) /\ Len(h) = 3
           /\ add_call(h, a))
          => Records' = <<LiteralRecord(action, args), CallRecord(h, a, 1)>>]_vars

C16_Witness ==
    /\ Len(Records) = 2
    /\ Records[1] = LiteralRecord(ACTION_ROUTE, <<Value("100000000000"), Value("300"),
                                                  Value("0xeeee"), Value("0xae7a")>>)
    /\ Records[2]["action"] = [json |-> "String", s |-> "call"]
    /\ ArgsOf(2)["method"] = [json |-> "String", s |-> "transfer"]
    /\ ArgsOf(2)["args"] = [json |-> "Array",
                            items |-> <<[json |-> "String", s |-> "0x9362"], OutputRef(1)>>]

\* the serialised args mapping of the last transaction
NewArgs == ArgsOf(Len(transactions))

\* C17: add_call(headArgs, abiArgs) appends one transaction with protocol
\* "enso", the built-in call schema and args = headArgs followed by one
\* ValueArray of abiArgs; the list is bound to the parameter at position
\* length(headArgs), which is "args" only for three head values
C17_AddCallAppendsDirectCall ==
    [][\A h \in HeadLists, a \in AbiLists :
          add_call(h, a) =>
              LET k == Len(transactions) + 1
                  list == [json |-> "Array", items |-> [q \in 1..Len(a) |-> Resolved(a[q], k - 1)]]
              IN
              /\ transactions' =
                    Append(transactions,
                           [protocol |-> [slug |-> "enso", url |-> "https://api.enso.finance"],
                            action |-> [action |-> "call",
                                        inputs |-> <<<<"address", "">>, <<"method", "">>,
                                                     <<"abi", "">>, <<"args", "">>>>],
                            args |-> h \o <<[tag |-> "ValueArray", values |-> a]>>])
              /\ Len(h) < 4 => NewArgs'[ACTION_CALL.inputs[Len(h) + 1][1]] = list
              /\ Len(h) >= 4 => \A x \in DOMAIN NewArgs' : NewArgs'[x] # list
              /\ ("args" \in DOMAIN NewArgs' /\ NewArgs'["args"] = list) <=> (Len(h) = 3)]_vars

C17_Witness ==
    /\ Len(transactions) = 3
    /\ transactions[1].args = <<LastTransaction, ValueArray(<<LastTransaction>>)>>
    /\ ArgsOf(1)["method"].json = "Array"
    /\ Len(transactions[2].args) = 5
    /\ transactions[2].args[5] = ValueArray(<<Value("0x9362"), Transaction(1)>>)
    /\ ArgsOf(2)["args"].json = "String"
    /\ Len(transactions[3].args) = 4
    /\ transactions[3].args[4].tag = "ValueArray"
    /\ ArgsOf(3)["args"].json = "Array"

\* the argument lists add_action receives, directly or from add_call
AllArgLists == ArgLists \cup {h \o <<ValueArray(a)>> : h \in HeadLists, a \in AbiLists}

\* C18: add_action puts the transaction at index = previous length, makes the
\* bundle one longer, leaves the earlier transactions and the chain id alone,
\* and takes any number and kind of values
C18_AddActionAppends ==
    /\ [](Len(transactions) < MaxTx =>
             \A protocol \in Protocols, action \in Actions, args \in AllArgLists :
                 ENABLED add_action(protocol, action, args))
    /\ [][\A protocol \in Protocols, action \in Actions, args \in AllArgLists :
             add_action(protocol, action, args) =>
                 /\ Len(transactions') = Len(transactions) + 1
                 /\ transactions'[Len(transactions) + 1] =
                        [protocol |-> protocol, action |-> action, args |-> args]
                 /\ \A j \in 1..Len(transactions) : transactions'[j] = transactions[j]
                 /\ chain_id' = chain_id]_vars

C18_Witness ==
    /\ Len(transactions) = 3
    /\ transactions[1].action = ACTION_EMPTY
    /\ Len(transactions[1].args) = 5
    /\ transactions[2].action = ACTION_ROUTE
    /\ Len(transactions[2].args) = 2
    /\ transactions[3].action = ACTION_CALL
    /\ transactions[3].protocol = OTHER_PROTOCOL
\* ---------------------------------------------------------------------------
\* Properties of the submission
\* ---------------------------------------------------------------------------
\* C20: send_bundle issues a POST whose query carries chainId = the chain id of
\* the bundle and fromAddress = the given address and whose body is the
\* serialised bundle itself, the array of records, not an encoding of it
C20_BodyIsTheRecordArray ==
    \A n \in 1..Len(posts) :
        /\ posts[n].method = "POST"
        /\ posts[n].query[1] = <<"chainId", [decimal |-> chain_id]>>
        /\ posts[n].query[2][1] = "fromAddress"
        /\ posts[n].query[2][2] \in FromAddresses
        /\ serde_json_from_str(posts[n].body) = [json |-> "Array", items |-> Records]
\* C21: one call of send_bundle makes at most one request, a failure is not
\* retried, and the call consumes the bundle: afterwards no operation adds to
\* it or submits it again
C21_AtMostOneRequest ==
    /\ [](/\ Len(posts) <= 1
          /\ send_result # None => (~owned /\ Len(posts) = 1)
          /\ ~owned => /\ ~ENABLED SendBundle
                       /\ ~ENABLED (Composing /\ AddAction)
                       /\ ~ENABLED (Composing /\ AddCall))
    /\ [][/\ posts' # posts => (owned /\ ~owned' /\ Len(posts') = Len(posts) + 1)
          /\ ~owned => UNCHANGED <<transactions, chain_id, posts, send_result>>]_vars

C21_Witness ==
    /\ ~owned
    /\ send_result = Some("Err")
    /\ Len(posts) = 1
    /\ Len(transactions) = 2
\* ---------------------------------------------------------------------------
\* More properties of the token stream
\* ---------------------------------------------------------------------------
\* C29: once a pull has produced end-of-sequence, every later pull produces
\* end-of-sequence too and sends no request; cursor, totalPages and phase stay
\* as they are
C29_EndIsFinal ==
    [][(\E i \in 1..Len(out) : out[i] = ReadyNone) =>
          /\ last'.ret = ReadyNone
          /\ out' = Append(out, ReadyNone)
          /\ requests' = requests
          /\ ~last'.issued
          /\ page' = page
          /\ total_pages' = total_pages
          /\ state' = state]_vars

C29_Witness ==
    /\ Len(out) = 4
    /\ out[1].kind = "Ok"
    /\ out[2] = ReadyNone
    /\ out[3] = ReadyNone
    /\ out[4] = ReadyNone
    /\ Len(requests) = 1

\* C30: the cursor is the number of pages yielded so far; it starts at 0,
\* never goes down, moves only by +1 and only on a successful decode, and
\* every request asks for page cursor+1 as the cursor is when it is sent
C30_CursorCountsYieldedPages ==
    /\ [](/\ page = Len(OkItems)
          /\ out = <<>> => page = 0)
    /\ [][/\ page' \in {page, page + 1}
          /\ page' = page + 1 <=> last'.parse = "Ok"
          /\ page' = page + 1 <=> Len(OkItems') = Len(OkItems) + 1
          /\ requests' # requests => requests' = Append(requests, page + 1)]_vars

C30_Witness ==
    /\ page = 2
    /\ Len(OkItems) = 2
    /\ requests = <<1, 1, 2>>
    /\ Len(out) = 3
\* what one instance yields is what a stream alone yields from this server:
\* its successful items are pages 1, 2, .. with the server's entries, it asks
\* for no page beyond the next one, and against a server that never fails its
\* results are page 1 .. page L and then end-of-sequence
AsAlone(o, r) ==
    LET ok == SelectSeq(o, LAMBDA x : x.kind = "Ok") IN
    /\ \A i \in 1..Len(ok) : ok[i] = ReadyOk(Addrs(i), i)
    /\ \A i \in 1..Len(r) : r[i] <= Len(ok) + 1
    /\ (server.reliable /\ server.last_page >= 1) =>
          \A i \in 1..Len(o) :
              IF i <= server.last_page THEN o[i] = ReadyOk(Addrs(i), i) ELSE o[i] = ReadyNone

\* C25: two stream instances polled in any interleaving each yield what they
\* would yield alone; a step of one never changes cursor, totalPages or phase
\* of the other, and dropping one in mid-flight leaves the other as it is and
\* able to go on
C25_InstancesIndependent ==
    /\ [](/\ AsAlone(out, requests)
          /\ AsAlone(other.out, other.requests)
          /\ page = Len(OkItems)
          /\ other.page = Len(SelectSeq(other.out, LAMBDA x : x.kind = "Ok"))
          /\ (other.dropped /\ ~panicked /\ Len(out) < MaxTwoPulls) => ENABLED PollFirst)
    /\ [][/\ other' # other =>
                UNCHANGED <<page, total_pages, state, requests, out, outstanding>>
          /\ <<page, total_pages, state, requests, out>>' # <<page, total_pages, state, requests, out>> =>
                other' = other]_vars

C25_Witness ==
    /\ other.dropped
    /\ other.state.tag = "PollingParsing"
    /\ other.requests = <<1>>
    /\ other.out = <<>>
    /\ server.reliable
    /\ server.last_page = 1
    /\ out = <<ReadyOk(Addrs(1), 1), ReadyNone>>
\* ---------------------------------------------------------------------------
\* Properties of the one-shot fetches and of the catalog
\* ---------------------------------------------------------------------------
\* C22: a one-shot fetch sends exactly one request; a transport failure and a
\* decode failure each end the call with one failure and no further request;
\* the decoded value is returned only when both succeed
C22_OneShotFetch ==
    /\ fetch.requests <= 1
    /\ fetch.pc # "done" => fetch.result = None
    /\ fetch.pc = "done" =>
          /\ fetch.requests = 1
          /\ fetch.result # None
          /\ LET r == fetch.result[1]
                 decoded == Decode(fetch.op, fetch.body, fetch.preserve_order) IN
             /\ fetch.transport = "Err" =>
                    (r = [ok |-> FALSE, msg |-> "Couldn't get tokens"] /\ fetch.read = "none")
             /\ (fetch.transport = "Ok" /\ (fetch.read = "Err" \/ ~decoded.ok)) =>
                    r = [ok |-> FALSE, msg |-> "Couldn't parse result"]
             /\ r.ok <=> (fetch.transport = "Ok" /\ fetch.read = "Ok" /\ decoded.ok)
             /\ r.ok => r.v = decoded.v
             /\ fetch.body = WGarbage => ~r.ok

C22_Witness ==
    /\ fetch.op = "get_networks"
    /\ fetch.pc = "done"
    /\ fetch.requests = 1
    /\ fetch.result # None
    /\ fetch.result[1].ok
    /\ fetch.result[1].v = <<[id |-> 1, name |-> "Ethereum"], [id |-> 10, name |-> "Optimism"]>>

\* C23: the j-th (name, description) pair of a decoded action is the j-th
\* field of the inputs object of its payload, for every payload
C23_InputsInPayloadOrder ==
    (fetch.op = "get_actions" /\ fetch.pc = "done" /\ fetch.result[1].ok) =>
        \A k \in 1..Len(fetch.body.items) :
            LET f == Get(fetch.body.items[k], "inputs").fields
                inputs == fetch.result[1].v[k].inputs IN
            /\ Len(inputs) = Len(f)
            /\ \A j \in 1..Len(f) :
                  /\ inputs[j][1] = f[j][1]
                  /\ inputs[j][2] = IF f[j][2].w = "Str" THEN f[j][2].s ELSE ""

\* C24: without any fetch add_call is available and the schema it uses is
\* named "call" and has the four parameters address, method, abi, args in
\* this order, at every call and in every transaction that was given it
C24_BuiltInCallSchema ==
    /\ [](/\ fetch = NoFetch
          /\ Len(transactions) < MaxTx => ENABLED AddCall
          /\ \A k \in 1..Len(transactions) :
                transactions[k].action.action = "call" =>
                    [j \in 1..Len(transactions[k].action.inputs) |->
                        transactions[k].action.inputs[j][1]] = <<"address", "method", "abi", "args">>)
    /\ [][\A h \in HeadLists, a \in AbiLists :
             add_call(h, a) =>
                 LET schema == transactions'[Len(transactions')].action IN
                 /\ schema.action = "call"
                 /\ Len(schema.inputs) = 4
                 /\ [j \in 1..4 |-> schema.inputs[j][1]] = <<"address", "method", "abi", "args">>]_vars

C24_Witness ==
    /\ fetch = NoFetch
    /\ Len(transactions) = 3
    /\ \A k \in 1..3 : transactions[k].action.action = "call"
    /\ Len(transactions[3].args) = 4
    /\ transactions[3].args[4].tag = "ValueArray"

\* C28: while no decode of the token stream has succeeded, every item the
\* stream yields is an error item and never the end of the sequence, and the
\* GetTokens arm of the business task stays in its loop over the stream: it
\* sends no response and takes no later request (Quit included) from its channel.
C28_FailingDecodesHoldTheBusinessTask ==
    [][(business.pc = "stream" /\ total_pages' = None) =>
            /\ \A i \in 1..Len(out') : out'[i].kind = "Err"
            /\ business'.pc \in {"stream", "panicked"}
            /\ business_to_ui' = business_to_ui
            /\ ui_to_business' = ui_to_business]_vars

C28_Witness ==
    /\ ui_status = "running"
    /\ business.pc = "stream"
    /\ total_pages = None
    /\ Len(out) >= 2
    /\ \A i \in 1..Len(out) : out[i].kind = "Err"
    /\ last.parse = "Err"
    /\ ui_to_business = <<Quit>>
    /\ business_to_ui = <<NetworksResponse(CatalogNetworks)>>

\* the three browsers of the composed bundle
Browsers == {"BrowseTransactions", "BrowseParameters", "BrowseValues"}

\* C26: in the transaction, parameter and value browsers, a turn of the UI
\* loop with the key S, taken while transactions are composed, puts a
\* SendBundle request with them on the channel and leaves an empty list.
C26_SKeySendsBundle ==
    [][(/\ ui_turn("S")
        /\ ui_state.tag \in Browsers
        /\ data.transactions # <<>>
        /\ ui_status' = "running"
        /\ ~BusinessGone) =>
            /\ data'.transactions = <<>>
            /\ ui_to_business' =
                   Append(ui_to_business, SendBundleRequest(data.transactions))]_vars

\* C27: a turn of the UI loop with the send key that clears a non-empty list
\* of composed transactions puts a SendBundle request with exactly those
\* transactions, in their order, on the channel to the business task.
C27_ClearedTransactionsAreSent ==
    [][(/\ ui_turn("E")
        /\ ui_state.tag \in Browsers
        /\ data.transactions # <<>>
        /\ data'.transactions = <<>>
        /\ ~BusinessGone) =>
            ui_to_business' =
                Append(ui_to_business, SendBundleRequest(data.transactions))]_vars

\* C31: a pull that decodes the first page yields that page as one item
\* whatever lastPage it reports, 0 included; and a pull made in the Checking
\* phase while the reported lastPage is at most the cursor ends the sequence
\* and requests no page.
C31_FirstPageYieldedThenEnd ==
    [][/\ (page = 0 /\ last'.parse = "Ok") =>
               /\ page' = 1
               /\ out' = Append(out,
                      ReadyOk([j \in 1..EntryCount(server, 1) |-> Token(1, j).address], 1))
       /\ (state.tag = "Checking" /\ total_pages # None /\ total_pages[1] <= page) =>
               /\ out' = Append(out, ReadyNone)
               /\ requests' = requests
               /\ state'.tag = "Checking"]_vars

C31_Witness ==
    /\ total_pages = Some(0)
    /\ page = 1
    /\ requests = <<1>>
    /\ Len(out) = 2
    /\ out[1].kind = "Ok" /\ out[1].page = 1
    /\ out[2] = ReadyNone

\* C32: whenever the UI runs one of the browsers with a transaction selected,
\* selected_parameter is an index of a parameter of that transaction's schema,
\* so the title lookup inputs[selected_parameter] is in range.
C32_SelectedParameterInRange ==
    (/\ ui_status = "running"
     /\ ui_state.tag \in Browsers
     /\ data.selected_transaction < Len(data.transactions)) =>
        data.selected_parameter <
            Len(data.transactions[data.selected_transaction + 1][1].inputs)

\* the list without the entry at index i, counted from 0
Without(txs, i) == SubSeq(txs, 1, i) \o SubSeq(txs, i + 2, Len(txs))

\* C33: a turn of the UI loop with the key D in the transaction browser
\* removes exactly the selected transaction, keeps the others in their order
\* and sets selected_parameter and selected_value to 0; and in every state
\* selected_transaction is below the number of transactions when there are
\* some, and 0 when there are none.
C33_DeleteRemovesSelected ==
    /\ [](IF data.transactions = <<>> THEN data.selected_transaction = 0
          ELSE data.selected_transaction < Len(data.transactions))
    /\ [][(/\ ui_turn("D")
           /\ ui_state.tag = "BrowseTransactions"
           /\ data.transactions # <<>>) =>
               /\ ui_status' = "running"
               /\ ui_state' = BrowseTransactions
               /\ data'.transactions = Without(data.transactions, data.selected_transaction)
               /\ data'.selected_parameter = 0
               /\ data'.selected_value = 0]_vars

C33_Witness ==
    /\ ui_status = "running"
    /\ ui_state.tag = "BrowseTransactions"
    /\ Len(data.transactions) = 2
    /\ data.transactions[1][1] # data.transactions[2][1]
    /\ data.selected_transaction = 1
    /\ ENABLED (ui_turn("D") /\ Len(data'.transactions) = 1)

ResponseKind(r) ==
    CASE r.req = "GetNetworks" -> "Networks"
      [] r.req = "GetProtocols" -> "Protocols"
      [] r.req = "GetActions" -> "Actions"
      [] r.req = "GetTokens" -> "Tokens"
      [] OTHER -> "none"

\* C35: the business task takes the requests from the head of its channel,
\* one at a time: none is taken while the token stream of a GetTokens request
\* is being read. A GetNetworks, GetProtocols or GetActions request that
\* completes appends exactly one response of its kind in the step that takes
\* it; a GetTokens request appends nothing until its stream has ended and then
\* exactly one Tokens response; SetNetwork, SendBundle and Quit append
\* nothing. Responses are only ever appended at the end of the channel, so
\* they leave in request order.
C35_RequestsAnsweredInOrder ==
    [][/\ business.pc = "stream" =>
            /\ ui_to_business' = ui_to_business
            /\ IF business'.pc = "recv"
               THEN /\ Len(business_to_ui') = Len(business_to_ui) + 1
                    /\ business_to_ui' =
                           Append(business_to_ui, TokensResponse(business.tokens))
               ELSE business_to_ui' = business_to_ui
       /\ business.pc # "stream" /\ ui_to_business' # ui_to_business =>
            /\ business.pc = "recv"
            /\ ui_to_business # <<>>
            /\ ui_to_business' = Tail(ui_to_business)
            /\ LET r == Head(ui_to_business) IN
               CASE r.req = "GetTokens" ->
                        business_to_ui' = business_to_ui /\ business'.pc = "stream"
                 [] ResponseKind(r) = "none" -> business_to_ui' = business_to_ui
                 [] OTHER ->
                        \/ /\ business'.pc = "panicked"
                           /\ business_to_ui' = business_to_ui
                        \/ /\ business'.pc = "recv"
                           /\ Len(business_to_ui') = Len(business_to_ui) + 1
                           /\ SubSeq(business_to_ui', 1, Len(business_to_ui)) = business_to_ui
                           /\ business_to_ui'[Len(business_to_ui')].resp = ResponseKind(r)
       /\ business.pc # "stream" /\ ui_to_business' = ui_to_business =>
            business_to_ui' = business_to_ui]_vars

C35_Witness ==
    /\ ui_status = "running"
    /\ business.pc = "recv"
    /\ business.chain_id = Some(10)
    /\ ui_to_business = <<>>
    /\ Len(out) >= 2
    /\ Len(business_to_ui) = 2
    /\ business_to_ui[1] = NetworksResponse(CatalogNetworks)
    /\ business_to_ui[2].resp = "Tokens"
    /\ Len(business_to_ui[2].v) = 1

\* the business task takes the request at the head of its channel, of kind k
Takes(k) ==
    /\ business.pc = "recv"
    /\ ui_to_business # <<>>
    /\ Head(ui_to_business).req = k
    /\ ui_to_business' = Tail(ui_to_business)

\* positions of the requests of kind k that wait in the channel
Queued(k) == {i \in 1..Len(ui_to_business) : ui_to_business[i].req = k}

\* a step of the business task keeps chain_id as the id of the last SetNetwork
\* it took, and creates the stream of a GetTokens request for that id, or for
\* 1 when chain_id is still None
StreamChainIsLastSetNetwork ==
    /\ IF Takes("SetNetwork")
       THEN business'.chain_id = Some(Head(ui_to_business).id)
       ELSE business'.chain_id = business.chain_id
    /\ IF Takes("GetTokens")
       THEN /\ business'.pc = "stream"
            /\ business'.stream_chain =
                   (IF business.chain_id = None THEN 1 ELSE business.chain_id[1])
       ELSE business'.stream_chain = business.stream_chain

\* a token list exists or is being fetched
TokensFetched ==
    \/ business.pc = "stream"
    \/ \E i \in 1..Len(business_to_ui) : business_to_ui[i].resp = "Tokens"
    \/ cache.tokens # None

\* the UI has sent no request about a network or tokens while it is in the
\* network selector, and exactly one SetNetwork, ahead of every GetTokens,
\* once it has left it
OneSetNetworkBeforeTokens ==
    IF ui_state.tag = "NetworkSelector"
    THEN /\ business.chain_id = None
         /\ Queued("SetNetwork") = {} /\ Queued("GetTokens") = {}
         /\ ~TokensFetched
    ELSE \/ /\ business.chain_id = None
            /\ Cardinality(Queued("SetNetwork")) = 1
            /\ \A i \in Queued("GetTokens") : \E j \in Queued("SetNetwork") : j < i
            /\ ~TokensFetched
         \/ /\ business.chain_id # None
            /\ Queued("SetNetwork") = {}

\* C36: the stream of a GetTokens request is created for the id of the last
\* SetNetwork request the business task took, or for 1 when it took none. In
\* the application, the turn that leaves the network selector sends SetNetwork
\* with the id of the selected network, no other SetNetwork is ever sent, no
\* GetTokens is sent before it, and so every token list that is fetched, waits
\* in the channel or is in the cache of the UI was fetched for that network.
C36_TokensFetchedForSelectedNetwork ==
    /\ [](/\ OneSetNetworkBeforeTokens
          /\ TokensFetched =>
                business.chain_id # None /\ business.stream_chain = business.chain_id[1])
    /\ [][/\ StreamChainIsLastSetNetwork
          /\ (ui_state.tag = "NetworkSelector" /\ ui_state'.tag # "NetworkSelector") =>
                /\ cache'.networks # None
                /\ ui_state.selected_network < Len(cache'.networks[1])
                /\ ui_to_business' =
                       Append(ui_to_business,
                              SetNetwork(cache'.networks[1][ui_state.selected_network + 1].id))
          /\ business.chain_id # None => business'.chain_id = business.chain_id]_vars

C36_Witness ==
    /\ ui_status = "running"
    /\ ui_state.tag = "TokenSelector"
    /\ cache.tokens # None
    /\ Len(cache.tokens[1]) = 1
    /\ business.chain_id = Some(10)
    /\ business.stream_chain = 10
    /\ business.pc = "recv"

\* the first half of C36 in front of any queue of requests: a GetTokens
\* request taken before any SetNetwork is fetched for chain 1
StreamChainInAnyQueue == [][StreamChainIsLastSetNetwork]_vars

StreamChainDefault ==
    /\ business.pc = "stream"
    /\ business.chain_id = None
    /\ business.stream_chain = 1

\* run waits in a send for room in the request channel
UiBlockedSending ==
    /\ flow.ui \in {"start", "send", "quit"}
    /\ flow.requests = ChannelCapacity
    /\ ~BusinessEnded

\* business waits in a send for room in the response channel
BusinessBlockedSending ==
    /\ flow.business = "send"
    /\ flow.responses = ChannelCapacity
    /\ flow.ui # "exited"

\* C37: in no reachable state does run wait for room in the full request
\* channel while business waits for room in the full response channel.
C37_NoDeadlockOnChannels == ~(UiBlockedSending /\ BusinessBlockedSending)

\* run is blocked on the full request channel while business holds a response
\* it can still send
C37_Witness ==
    /\ UiBlockedSending
    /\ flow.business = "send"
    /\ flow.responses > 0
    /\ flow.responses < ChannelCapacity

\* business is blocked on the full response channel while run goes on
BusinessBlockedAlone ==
    /\ BusinessBlockedSending
    /\ flow.ui = "send"
    /\ flow.requests < ChannelCapacity

====
